---- MODULE Spec2Model ----
(***************************************************************************)
(* A model of the coordination core of kazeta-plus-plus: the input daemon  *)
(* (src/input-daemon/src/main.rs), the overlay's IPC server                *)
(* (src/overlay/src/ipc.rs), the overlay state machine and toast manager   *)
(* (src/overlay/src/state.rs) and the controller table                     *)
(* (src/overlay/src/controllers.rs).                                       *)
(*                                                                         *)
(* Each component has its own specification over the shared variable list: *)
(*   SpecInput        the input daemon: hotkey debounce, monitor threads   *)
(*   SpecHotplug      the input daemon: device scanner and hotplug events  *)
(*   SpecSocket       overlay instances starting and stopping on the path  *)
(*   SpecIpc          connections, poll_messages and read_message          *)
(*   Spec             the overlay state machine (handle_input / message)   *)
(*   SpecToast        the overlay tick and the toast manager, with a clock *)
(*   SpecControllers  the controller table                                 *)
(*   SpecToastManager the toast manager without the frame loop             *)
(*   SpecPlaytime     the playtime tracker and its database                *)
(*   SpecFilter       the achievement filter of the overlay                *)
(*   SpecShutdown     the input daemon after SIGINT                        *)
(*   SpecLaunch       the overlay's clients and the BIOS game launch       *)
(*   SpecQuitConfirm  the overlay state machine around the quit dialog     *)
(*   SpecHud          the frame loop with the performance HUD              *)
(*   SpecFeed         the achievement tracker and the game's feed          *)
(*   SpecDebounce     the hotkey debounce of one device, three presses     *)
(*   SpecKeys         the key events of a device and Ctrl+O                *)
(*   SpecIpcLive      SpecIpc with the overlay's steps weakly fair         *)
(*   SpecTick         the overlay tick: hotkeys and poll_inputs, a gamepad *)
(*   SpecHotkeys      the overlay tick: hotkey bindings on the keyboard    *)
(*   SpecMutex        the input daemon's lock on GlobalState               *)
(*   SpecSessions     game_started / game_stopped and the playtime tracker *)
(*   SpecReach        overlay instances and probes of the socket path      *)
(* A specification leaves the variables of the other components unchanged. *)
(***************************************************************************)
EXTENDS Integers, Sequences, FiniteSets, TLC

None == "none"

Min(a, b) == IF a < b THEN a ELSE b

(* usize::saturating_sub *)
saturating_sub(a, b) == IF a > b THEN a - b ELSE 0

Range(s) == {s[i] : i \in DOMAIN s}

VARIABLES
    \* ---- input daemon (src/input-daemon/src/main.rs) ----
    clock,               \* Instant::now(), in clock ticks
    last_hotkey_time,    \* GlobalState.last_hotkey_time
    monitored_devices,   \* GlobalState.monitored_devices
    present,             \* /dev/input/event* nodes that open as a relevant device
    inotify_q,           \* inotify events not yet read by device_scanner
    main_pc,             \* position of the main thread
    main_path,           \* the path the main thread is working on
    initial_devices,     \* what find_input_devices returned, not yet spawned
    threads,             \* monitor threads: tid -> [path, pc]
    calls,               \* history: every try_trigger call [t, dev, fired]
    notified,            \* history: notify_overlay calls that wrote the message
    skipped,             \* history: notify_overlay calls that wrote nothing
    overlay_socket,      \* whether OVERLAY_SOCKET exists with a listener
    \* ---- overlay state machine (src/overlay/src/state.rs) ----
    overlay_state,       \* main.rs: the OverlayState
    quit_file,           \* whether /tmp/kazeta-quit-game exists
    last_op,             \* history: the toggle handled last and the state before it
    \* ---- overlay processes and the socket path (src/overlay/src/ipc.rs) ----
    socket_path,         \* what SOCKET_PATH names: nothing, a file, a socket
    servers,             \* overlay process -> position in IpcServer::new / Drop
    \* ---- connections to the IPC server (src/overlay/src/ipc.rs) ----
    conns,               \* connection -> [state, unread, sent, client_open]
    backlog,             \* connections waiting in listener.accept(), in order
    poll_pc,             \* position of poll_messages
    stream,              \* the connection read_message is reading
    messages,            \* poll_messages: the Vec being filled
    handled,             \* history: [conn, msg] in the order returned to main
    \* ---- controller table (src/overlay/src/controllers.rs) ----
    gilrs,               \* gilrs: gamepad id -> uuid of the connected gamepad
    controllers,         \* ControllerState.controllers
    player_assignments,  \* ControllerState.player_assignments
    \* ---- the overlay frame and its toasts (main.rs, state.rs, rendering.rs) ----
    frame_pc,            \* position in the body of main's loop
    rendered,            \* history: what get_visible_toasts returned to the last render
    \* ---- the toast manager alone (src/overlay/src/state.rs) ----
    toast_count,         \* history: how many add_toast calls were made
    \* ---- playtime tracker (src/overlay/src/playtime.rs) ----
    play_clock,          \* Instant::now(), in half seconds
    current_session,     \* PlaytimeTracker.current_session
    database,            \* PlaytimeTracker.database.entries
    db_file,             \* playtime.json: the database saved last
    loaded,              \* history: the database PlaytimeTracker::new loaded
    started,             \* history: cart -> number of start_session calls
    \* ---- achievement list and its filter (src/overlay/src/state.rs) ----
    achievements,        \* AchievementTracker.achievements
    filter_state,        \* an AchievementFilterState
    \* ---- input daemon shutdown (src/input-daemon/src/main.rs) ----
    running,             \* main: the running flag (AtomicBool)
    scanner_pc,          \* where device_scanner is while main_pc = "read_events"
    \* ---- overlay clients and the BIOS game launch (src/bios/src/utils.rs) ----
    sock_file,           \* whether /tmp/kazeta-overlay.sock exists
    last_probe,          \* the last availability probe and what it found
    last_call,           \* the last producer call and what it did
    bios_pc,             \* where trigger_game_launch is
    attempt,             \* start_overlay_daemon: passes of the wait loop made
    spawned,             \* overlay processes spawned by start_overlay_daemon
    steps,               \* the steps of trigger_game_launch taken so far
    start_case,          \* how start_overlay_daemon ended
    start_seen,          \* what the probe of start_overlay_daemon found
    launch_cmd,          \* the outcome of write_launch_command
    sentinel,            \* whether the restart sentinel file exists
    bios_screen,         \* the BIOS screen
    bios_log,            \* what the BIOS has printed
    \* ---- the performance HUD (src/overlay/src/performance.rs, main.rs) ----
    perf_visible,        \* PerformanceStats.visible
    hud_drawn,           \* history: whether the last frame drew the HUD
    \* ---- the achievement tracker and its feed (src/overlay/src/state.rs) ----
    tracker,             \* OverlayState.achievements (AchievementTracker)
    lifecycle,           \* history: where the feed is in the game's lifecycle
    \* ---- the keys of monitor_device (src/input-daemon/src/main.rs) ----
    kbd,                 \* per device: keys down, ModifierState, the last O press
    \* ---- the overlay's own input (src/overlay/src/input.rs, hotkeys.rs) ----
    input_monitor,       \* HotkeyMonitor, the keys macroquad reports, the tick
    \* ---- the input daemon's lock (src/input-daemon/src/main.rs) ----
    mutex,               \* Mutex<GlobalState>: its holder, each thread's position
    \* ---- processes that probe the socket path (client.rs, bios utils.rs) ----
    probe_pc             \* prober -> where its probe of the socket path is

inputVars == <<clock, last_hotkey_time, monitored_devices, present, inotify_q,
               main_pc, main_path, initial_devices, threads, calls, notified,
               skipped, overlay_socket>>

overlayVars == <<overlay_state, quit_file, last_op>>

socketVars == <<socket_path, servers>>

ipcVars == <<conns, backlog, poll_pc, stream, messages, handled>>

ctrlVars == <<gilrs, controllers, player_assignments>>

frameVars == <<frame_pc, rendered>>

toastVars == <<toast_count>>

playVars == <<play_clock, current_session, database, db_file, loaded, started>>

(* the components that are specified on their own *)
filterVars == <<achievements, filter_state>>

shutVars == <<running, scanner_pc>>

launchPcVars ==
    <<bios_pc, attempt, spawned, steps, start_case, start_seen, launch_cmd,
      sentinel, bios_screen, bios_log>>

launchVars == <<sock_file, last_probe, last_call, launchPcVars>>

hudVars == <<perf_visible, hud_drawn>>

trackerVars == <<tracker, lifecycle>>

(* the components added after the launch *)
lateVars == <<kbd, input_monitor, mutex, probe_pc>>

moreVars == <<hudVars, trackerVars, lateVars>>

aloneVars ==
    <<toastVars, playVars, filterVars, shutVars, launchVars, moreVars>>

vars == <<inputVars, overlayVars, socketVars, ipcVars, ctrlVars, frameVars,
          aloneVars>>

notInputVars ==
    <<overlayVars, socketVars, ipcVars, ctrlVars, frameVars, aloneVars>>

notOverlayVars ==
    <<inputVars, socketVars, ipcVars, ctrlVars, frameVars, aloneVars>>

notSocketVars ==
    <<inputVars, overlayVars, ipcVars, ctrlVars, frameVars, aloneVars>>

notIpcVars ==
    <<inputVars, overlayVars, socketVars, ctrlVars, frameVars, aloneVars>>

notCtrlVars ==
    <<inputVars, overlayVars, socketVars, ipcVars, frameVars, aloneVars>>

(* what the frame steps leave alone besides the overlay state *)
notFrameVars ==
    <<inputVars, quit_file, last_op, socketVars, ipcVars, ctrlVars, aloneVars>>

(* what the toast manager's steps leave alone besides the overlay state *)
notToastVars ==
    <<inputVars, quit_file, last_op, socketVars, ipcVars, ctrlVars, frameVars,
      playVars, filterVars, shutVars, launchVars, moreVars>>

(* the overlay process and the input daemon *)
coreVars ==
    <<inputVars, overlayVars, socketVars, ipcVars, ctrlVars, frameVars>>

notPlayVars ==
    <<coreVars, toastVars, filterVars, shutVars, launchVars, moreVars>>

notFilterVars ==
    <<coreVars, toastVars, playVars, shutVars, launchVars, moreVars>>

notLaunchVars ==
    <<coreVars, toastVars, playVars, filterVars, shutVars, moreVars>>

(* what the frames with the HUD leave alone besides the overlay state *)
notHudVars ==
    <<inputVars, quit_file, last_op, socketVars, ipcVars, ctrlVars, toastVars,
      playVars, filterVars, shutVars, launchVars, trackerVars, lateVars>>

(* what the messages of the feed leave alone besides the overlay state, the
   playtime tracker and the achievement tracker *)
notFeedVars ==
    <<inputVars, quit_file, last_op, socketVars, ipcVars, ctrlVars, frameVars,
      toastVars, filterVars, shutVars, launchVars, hudVars, lateVars>>

(* everything but the components added last *)
notLateVars ==
    <<coreVars, toastVars, playVars, filterVars, shutVars, launchVars,
      hudVars, trackerVars>>

(* what the input steps of the tick leave alone besides the overlay state
   and the HUD flag *)
notMonitorVars ==
    <<inputVars, quit_file, last_op, socketVars, ipcVars, ctrlVars, frameVars,
      toastVars, playVars, filterVars, shutVars, launchVars, hud_drawn,
      trackerVars, kbd, mutex, probe_pc>>

(* what a probe of the socket path leaves alone besides the path *)
notProbeVars ==
    <<inputVars, overlayVars, servers, ipcVars, ctrlVars, frameVars,
      toastVars, playVars, filterVars, shutVars, launchVars, hudVars,
      trackerVars, kbd, input_monitor, mutex>>

(* what the shutdown steps leave alone besides the input daemon *)
notShutVars ==
    <<overlayVars, socketVars, ipcVars, ctrlVars, frameVars, toastVars,
      playVars, filterVars, launchVars, moreVars>>

(***************************************************************************)
(*                            INPUT DAEMON                                 *)
(***************************************************************************)

\* Bounds of the input-daemon model.
MaxCoarse == 7           \* how many 50 ms steps the clock takes
MaxFine == 1             \* how many single ticks follow a 50 ms step
MaxCalls == 2            \* hotkey presses handled in one run
MaxPresses == 3          \* hotkey presses handled in a run of one device
MaxThreads == 3          \* monitor threads spawned in one run
MaxEvents == 2           \* inotify events queued at once

\* Program constants.
HOTKEY_DEBOUNCE_MS == 300

Paths == {"event0", "event1"}
Tids == 1 .. MaxThreads

(* the clock counts half milliseconds *)
Ms(n) == n * 2
StartTime == Ms(1000)

(* Duration::as_millis: whole milliseconds, the rest cut off *)
as_millis(d) == d \div 2

(* GlobalState::try_trigger, the comparison *)
try_trigger_ge(t_now, last) == as_millis(t_now - last) >= HOTKEY_DEBOUNCE_MS

try_trigger(t_now, last) == as_millis(t_now - last) > HOTKEY_DEBOUNCE_MS

NoThread == [path |-> None, pc |-> "unborn"]

FreeTids == {t \in Tids : threads[t].pc = "unborn"}

NewTid == CHOOSE t \in FreeTids : \A u \in FreeTids : t <= u

(* thread::spawn(move || monitor_device(path, ...)) *)
spawn_monitor(ths, p) == [ths EXCEPT ![NewTid] = [path |-> p, pc |-> "start"]]

(* GlobalState::new and the start of main, with the device nodes in devs *)
DaemonInit(devs) ==
    /\ clock = StartTime
    /\ last_hotkey_time = StartTime - Ms(1000)
    /\ monitored_devices = {}
    /\ present = devs
    /\ inotify_q = <<>>
    /\ main_pc = "find_input_devices"
    /\ main_path = None
    /\ initial_devices = {}
    /\ threads = [t \in Tids |-> NoThread]
    /\ calls = <<>>
    /\ notified = 0
    /\ skipped = 0
    /\ overlay_socket \in BOOLEAN

\* ---- the environment ----

(* time passes: 50 ms, or one tick; the run is followed until max presses
   have been handled *)
TickUntil(max) ==
    /\ Len(calls) < max
    /\ \/ /\ clock + Ms(50) <= StartTime + MaxCoarse * Ms(50)
          /\ clock' = clock - ((clock - StartTime) % Ms(50)) + Ms(50)
       \/ /\ (clock - StartTime) % Ms(50) < MaxFine
          /\ clock' = clock + 1
    /\ UNCHANGED <<last_hotkey_time, monitored_devices, present, inotify_q,
                   main_pc, main_path, initial_devices, threads, calls,
                   notified, skipped, overlay_socket>>
    /\ UNCHANGED notInputVars

Tick == TickUntil(MaxCalls)

Watching == main_pc \notin {"find_input_devices", "spawn_initial"}

(* a device node appears: inotify CREATE once the watch is added *)
Plug(p) ==
    /\ p \notin present
    /\ present' = present \cup {p}
    /\ IF Watching /\ Len(inotify_q) < MaxEvents
          THEN inotify_q' = Append(inotify_q, p)
          ELSE UNCHANGED inotify_q
    /\ Watching => Len(inotify_q) < MaxEvents
    /\ UNCHANGED <<clock, last_hotkey_time, monitored_devices, main_pc,
                   main_path, initial_devices, threads, calls, notified,
                   skipped, overlay_socket>>
    /\ UNCHANGED notInputVars

(* a device node goes away *)
Unplug(p) ==
    /\ p \in present
    /\ present' = present \ {p}
    /\ UNCHANGED <<clock, last_hotkey_time, monitored_devices, inotify_q,
                   main_pc, main_path, initial_devices, threads, calls,
                   notified, skipped, overlay_socket>>
    /\ UNCHANGED notInputVars

(* udev changes the node's owner or mode: inotify ATTRIB *)
Attrib(p) ==
    /\ p \in present
    /\ Watching
    /\ Len(inotify_q) < MaxEvents
    /\ inotify_q' = Append(inotify_q, p)
    /\ UNCHANGED <<clock, last_hotkey_time, monitored_devices, present,
                   main_pc, main_path, initial_devices, threads, calls,
                   notified, skipped, overlay_socket>>
    /\ UNCHANGED notInputVars

(* the overlay comes up or goes away *)
OverlaySocketFlip ==
    /\ overlay_socket' = ~overlay_socket
    /\ UNCHANGED <<clock, last_hotkey_time, monitored_devices, present,
                   inotify_q, main_pc, main_path, initial_devices, threads,
                   calls, notified, skipped>>
    /\ UNCHANGED notInputVars

\* ---- main thread ----

(* main: find_input_devices(&state) *)
find_input_devices ==
    /\ main_pc = "find_input_devices"
    /\ initial_devices' = present \ monitored_devices
    /\ main_pc' = "spawn_initial"
    /\ UNCHANGED <<clock, last_hotkey_time, monitored_devices, present,
                   inotify_q, main_path, threads, calls, notified, skipped,
                   overlay_socket>>
    /\ UNCHANGED notInputVars

(* main: for (path, device) in initial_devices { thread::spawn(...) } *)
spawn_initial ==
    /\ main_pc = "spawn_initial"
    /\ IF initial_devices = {}
          THEN /\ main_pc' = "read_events"
               /\ UNCHANGED <<initial_devices, threads>>
          ELSE /\ FreeTids # {}
               /\ \E p \in initial_devices :
                     /\ threads' = spawn_monitor(threads, p)
                     /\ initial_devices' = initial_devices \ {p}
               /\ UNCHANGED main_pc
    /\ UNCHANGED <<clock, last_hotkey_time, monitored_devices, present,
                   inotify_q, main_path, calls, notified, skipped,
                   overlay_socket>>
    /\ UNCHANGED notInputVars

(* device_scanner: read_events_blocking yields an event for an event* node *)
scanner_read_event ==
    /\ main_pc = "read_events"
    /\ inotify_q # <<>>
    /\ main_path' = Head(inotify_q)
    /\ inotify_q' = Tail(inotify_q)
    /\ main_pc' = "check_monitored"
    /\ UNCHANGED <<clock, last_hotkey_time, monitored_devices, present,
                   initial_devices, threads, calls, notified, skipped,
                   overlay_socket>>
    /\ UNCHANGED notInputVars

(* device_scanner: already_monitored, after the 100 ms sleep *)
scanner_check_monitored ==
    /\ main_pc = "check_monitored"
    /\ IF main_path \in monitored_devices
          THEN main_pc' = "read_events" /\ main_path' = None
          ELSE main_pc' = "open" /\ UNCHANGED main_path
    /\ UNCHANGED <<clock, last_hotkey_time, monitored_devices, present,
                   inotify_q, initial_devices, threads, calls, notified,
                   skipped, overlay_socket>>
    /\ UNCHANGED notInputVars

(* device_scanner: Device::open and is_relevant_device *)
scanner_open ==
    /\ main_pc = "open"
    /\ IF main_path \in present
          THEN main_pc' = "insert" /\ UNCHANGED main_path
          ELSE main_pc' = "read_events" /\ main_path' = None
    /\ UNCHANGED <<clock, last_hotkey_time, monitored_devices, present,
                   inotify_q, initial_devices, threads, calls, notified,
                   skipped, overlay_socket>>
    /\ UNCHANGED notInputVars

(* device_scanner: monitored_devices.insert(device_path) *)
scanner_insert ==
    /\ main_pc = "insert"
    /\ monitored_devices' = monitored_devices \cup {main_path}
    /\ main_pc' = "spawn"
    /\ UNCHANGED <<clock, last_hotkey_time, present, inotify_q, main_path,
                   initial_devices, threads, calls, notified, skipped,
                   overlay_socket>>
    /\ UNCHANGED notInputVars

(* device_scanner: thread::spawn(monitor_device) *)
scanner_spawn ==
    /\ main_pc = "spawn"
    /\ FreeTids # {}
    /\ threads' = spawn_monitor(threads, main_path)
    /\ main_pc' = "read_events"
    /\ main_path' = None
    /\ UNCHANGED <<clock, last_hotkey_time, monitored_devices, present,
                   inotify_q, initial_devices, calls, notified, skipped,
                   overlay_socket>>
    /\ UNCHANGED notInputVars

\* ---- monitor threads ----

(* monitor_device: monitored_devices.insert(path) *)
monitor_insert(t) ==
    /\ threads[t].pc = "start"
    /\ monitored_devices' = monitored_devices \cup {threads[t].path}
    /\ threads' = [threads EXCEPT ![t].pc = "fetch_events"]
    /\ UNCHANGED <<clock, last_hotkey_time, present, inotify_q, main_pc,
                   main_path, initial_devices, calls, notified, skipped,
                   overlay_socket>>
    /\ UNCHANGED notInputVars

(* toggle_overlay with a try_trigger that sets last_hotkey_time whatever it
   returns *)
press_restart(t, max) ==
    /\ threads[t].pc = "fetch_events"
    /\ threads[t].path \in present
    /\ Len(calls) < max
    /\ LET fire == try_trigger(clock, last_hotkey_time) IN
          /\ last_hotkey_time' = clock
          /\ threads' = [threads EXCEPT
                           ![t].pc = IF fire THEN "notify_overlay"
                                             ELSE "fetch_events"]
          /\ calls' = Append(calls,
                         [t |-> clock, dev |-> threads[t].path, fired |-> fire])
    /\ UNCHANGED <<clock, monitored_devices, present, inotify_q, main_pc,
                   main_path, initial_devices, notified, skipped,
                   overlay_socket>>
    /\ UNCHANGED notInputVars

(* monitor_device: fetch_events yields a press of BTN_MODE or KEY_F12 (or of
   KEY_O with ctrl held), and toggle_overlay runs try_trigger under the lock;
   the run is followed until max presses have been handled *)
press(t, max) ==
    /\ threads[t].pc = "fetch_events"
    /\ threads[t].path \in present
    /\ Len(calls) < max
    /\ LET fire == try_trigger(clock, last_hotkey_time) IN
          /\ last_hotkey_time' = IF fire THEN clock ELSE last_hotkey_time
          /\ threads' = [threads EXCEPT
                           ![t].pc = IF fire THEN "notify_overlay"
                                             ELSE "fetch_events"]
          /\ calls' = Append(calls,
                         [t |-> clock, dev |-> threads[t].path, fired |-> fire])
    /\ UNCHANGED <<clock, monitored_devices, present, inotify_q, main_pc,
                   main_path, initial_devices, notified, skipped,
                   overlay_socket>>
    /\ UNCHANGED notInputVars

toggle_overlay(t) == press(t, MaxCalls)

(* notify_overlay: connect and writeln, or nothing when the socket is gone *)
notify_overlay(t) ==
    /\ threads[t].pc = "notify_overlay"
    /\ IF overlay_socket
          THEN notified' = notified + 1 /\ UNCHANGED skipped
          ELSE skipped' = skipped + 1 /\ UNCHANGED notified
    /\ threads' = [threads EXCEPT ![t].pc = "fetch_events"]
    /\ UNCHANGED <<clock, last_hotkey_time, monitored_devices, present,
                   inotify_q, main_pc, main_path, initial_devices, calls,
                   overlay_socket>>
    /\ UNCHANGED notInputVars

(* monitor_device: fetch_events fails with an error other than WouldBlock *)
monitor_read_error(t) ==
    /\ threads[t].pc = "fetch_events"
    /\ threads[t].path \notin present
    /\ threads' = [threads EXCEPT ![t].pc = "remove"]
    /\ UNCHANGED <<clock, last_hotkey_time, monitored_devices, present,
                   inotify_q, main_pc, main_path, initial_devices, calls,
                   notified, skipped, overlay_socket>>
    /\ UNCHANGED notInputVars

(* monitor_device returning without monitored_devices.remove(&path) *)
monitor_remove_keep(t) ==
    /\ threads[t].pc = "remove"
    /\ threads' = [threads EXCEPT ![t].pc = "done"]
    /\ UNCHANGED <<clock, last_hotkey_time, monitored_devices, present,
                   inotify_q, main_pc, main_path, initial_devices, calls,
                   notified, skipped, overlay_socket>>
    /\ UNCHANGED notInputVars

(* monitor_device: monitored_devices.remove(&path), then return *)
monitor_remove(t) ==
    /\ threads[t].pc = "remove"
    /\ monitored_devices' = monitored_devices \ {threads[t].path}
    /\ threads' = [threads EXCEPT ![t].pc = "done"]
    /\ UNCHANGED <<clock, last_hotkey_time, present, inotify_q, main_pc,
                   main_path, initial_devices, calls, notified, skipped,
                   overlay_socket>>
    /\ UNCHANGED notInputVars

(* the debounce side: a running daemon, the clock, hotkey presses *)
InputNext ==
    \/ Tick
    \/ OverlaySocketFlip
    \/ find_input_devices
    \/ spawn_initial
    \/ \E t \in Tids : monitor_insert(t)
    \/ \E t \in Tids : toggle_overlay(t)
    \/ \E t \in Tids : notify_overlay(t)

(* the debounce of one device, followed for more presses *)
DebounceNext ==
    \/ TickUntil(MaxPresses)
    \/ find_input_devices
    \/ spawn_initial
    \/ \E t \in Tids : monitor_insert(t)
    \/ \E t \in Tids : press(t, MaxPresses)
    \/ \E t \in Tids : notify_overlay(t)

(* the hotplug side: devices come and go, no key is pressed *)
HotplugNext ==
    \/ \E p \in Paths : Plug(p)
    \/ \E p \in Paths : Unplug(p)
    \/ \E p \in Paths : Attrib(p)
    \/ find_input_devices
    \/ spawn_initial
    \/ scanner_read_event
    \/ scanner_check_monitored
    \/ scanner_open
    \/ scanner_insert
    \/ scanner_spawn
    \/ \E t \in Tids : monitor_insert(t)
    \/ \E t \in Tids : monitor_read_error(t)
    \/ \E t \in Tids : monitor_remove(t)

\* ---- monitor_device: the key events of a device and Ctrl+O ----

Keys == {"KEY_LEFTCTRL", "KEY_RIGHTCTRL", "KEY_O"}

CtrlKeys == {"KEY_LEFTCTRL", "KEY_RIGHTCTRL"}

(* event.value() of a key event: release, press, auto-repeat *)
KeyValues == {0, 1, 2}

(* ModifierState::default *)
ModifierState_default == [ctrl_left |-> FALSE, ctrl_right |-> FALSE]

(* ModifierState::ctrl_held *)
ctrl_held(modifiers) == modifiers.ctrl_left \/ modifiers.ctrl_right

NoPress == [dev |-> None, ctrl_down |-> FALSE, is_hotkey |-> FALSE]

(* the monitor threads start with no key down *)
KbdInit ==
    kbd = [down |-> [p \in Paths |-> {}],
           modifiers |-> [p \in Paths |-> ModifierState_default],
           last_o |-> NoPress]

(* monitor_device: the modifiers after a key event *)
track_modifiers(modifiers, key, value) ==
    LET pressed == value = 1
    IN  CASE key = "KEY_LEFTCTRL" -> [modifiers EXCEPT !.ctrl_left = pressed]
          [] key = "KEY_RIGHTCTRL" -> [modifiers EXCEPT !.ctrl_right = pressed]
          [] OTHER -> modifiers

(* monitor_device: is_hotkey of a key event, given the modifiers after it *)
is_hotkey(modifiers, key, value) ==
    value = 1 /\ key = "KEY_O" /\ ctrl_held(modifiers)

(* the device sends a key event and its monitor thread handles it: a press
   of a key that is up, a release or an auto-repeat of a key that is down;
   with is_hotkey the thread calls toggle_overlay *)
key_event(p, key, value) ==
    /\ IF value = 1 THEN key \notin kbd.down[p] ELSE key \in kbd.down[p]
    /\ LET modifiers == track_modifiers(kbd.modifiers[p], key, value)
       IN  kbd' =
              [down |-> [kbd.down EXCEPT ![p] =
                            IF value = 0 THEN @ \ {key} ELSE @ \cup {key}],
               modifiers |-> [kbd.modifiers EXCEPT ![p] = modifiers],
               last_o |-> IF key = "KEY_O" /\ value = 1
                             THEN [dev |-> p,
                                   ctrl_down |->
                                      kbd.down[p] \cap CtrlKeys # {},
                                   is_hotkey |->
                                      is_hotkey(modifiers, key, value)]
                             ELSE kbd.last_o]
    /\ UNCHANGED <<notLateVars, input_monitor, mutex, probe_pc>>

KeysNext ==
    \E p \in Paths, key \in Keys, value \in KeyValues : key_event(p, key, value)

(* C31: Ctrl+O recognition. An O press on a device triggers the toggle if
   and only if left or right Ctrl of that device is down at that moment,
   whatever presses, auto-repeats and releases came before, on this device
   or another. *)
C31_CtrlOArmed ==
    kbd.last_o # NoPress => (kbd.last_o.is_hotkey <=> kbd.last_o.ctrl_down)

\* ---- the lock on GlobalState: who holds it, and where ----

(* the threads of the daemon: main, which runs device_scanner, and the
   monitor threads that are followed *)
MonitorThreads == {"monitor1", "monitor2"}

Lockers == {"main"} \cup MonitorThreads

(* the kinds of position of a thread: at a state.lock() call, inside the
   block that owns the guard, in a call that blocks (a device read, the
   inotify read, a sleep, the socket connect and write), or in code between *)
Kinds == {"lock", "critical", "blocking", "step", "end"}

(* monitor_device with toggle_overlay and notify_overlay: each position with
   its kind and the positions that follow it *)
monitor_device ==
    [unborn |-> [kind |-> "end", next |-> {}],
     insert_lock |-> [kind |-> "lock", next |-> {"insert"}],
     insert |-> [kind |-> "critical", next |-> {"fetch_events"}],
     fetch_events |-> [kind |-> "blocking",
                       next |-> {"for_event", "sleep", "remove_lock"}],
     for_event |-> [kind |-> "step", next |-> {"fetch_events", "trigger_lock"}],
     trigger_lock |-> [kind |-> "lock", next |-> {"try_trigger"}],
     try_trigger |-> [kind |-> "critical",
                      next |-> {"notify_overlay", "for_event"}],
     notify_overlay |-> [kind |-> "blocking", next |-> {"for_event"}],
     sleep |-> [kind |-> "blocking", next |-> {"fetch_events"}],
     remove_lock |-> [kind |-> "lock", next |-> {"remove"}],
     remove |-> [kind |-> "critical", next |-> {"done"}],
     done |-> [kind |-> "end", next |-> {}]]

(* main: find_input_devices, the spawn of the initial monitors, then
   device_scanner *)
device_scanner ==
    [find_lock |-> [kind |-> "lock", next |-> {"find_clone"}],
     find_clone |-> [kind |-> "critical", next |-> {"spawn_initial"}],
     spawn_initial |-> [kind |-> "step", next |-> {"read_events"}],
     read_events |-> [kind |-> "blocking", next |-> {"for_event", "error_sleep"}],
     error_sleep |-> [kind |-> "blocking", next |-> {"read_events"}],
     for_event |-> [kind |-> "step", next |-> {"ready_sleep", "read_events"}],
     ready_sleep |-> [kind |-> "blocking", next |-> {"check_lock"}],
     check_lock |-> [kind |-> "lock", next |-> {"check"}],
     check |-> [kind |-> "critical", next |-> {"open", "for_event"}],
     open |-> [kind |-> "step", next |-> {"insert_lock", "for_event"}],
     insert_lock |-> [kind |-> "lock", next |-> {"insert"}],
     insert |-> [kind |-> "critical", next |-> {"spawn"}],
     spawn |-> [kind |-> "step", next |-> {"for_event"}]]

(* the code a thread runs *)
Program(who) == IF who = "main" THEN device_scanner ELSE monitor_device

(* where a thread is in its code *)
At(who) == Program(who)[mutex.pc[who]]

(* Mutex::new(GlobalState::new()); main is about to call
   find_input_devices and no monitor thread is spawned *)
MutexInit ==
    mutex = [holder |-> None,
             pc |-> [who \in Lockers |->
                        IF who = "main" THEN "find_lock" ELSE "unborn"]]

(* the monitor threads that a thread::spawn at this position of main can
   start: spawn_initial starts one per initial device, the scanner one *)
Spawns(pos) ==
    LET unborn == {t \in MonitorThreads : mutex.pc[t] = "unborn"}
    IN  CASE pos = "spawn_initial" -> SUBSET unborn
          [] pos = "spawn" -> IF unborn = {} THEN {{}}
                              ELSE {{t} : t \in unborn}
          [] OTHER -> {{}}

(* state.lock().unwrap(): the thread gets the guard when no thread holds the
   lock, and waits at the call otherwise *)
mutex_lock(who) ==
    /\ At(who).kind = "lock"
    /\ mutex.holder = None
    /\ \E pos \in At(who).next :
          mutex' = [holder |-> who, pc |-> [mutex.pc EXCEPT ![who] = pos]]
    /\ UNCHANGED <<notLateVars, kbd, input_monitor, probe_pc>>

(* a block that leaves the guard alive when it ends *)
mutex_keep(who) ==
    /\ At(who).kind = "critical"
    /\ mutex.holder = who
    /\ \E pos \in At(who).next :
          mutex' = [mutex EXCEPT !.pc[who] = pos]
    /\ UNCHANGED <<notLateVars, kbd, input_monitor, probe_pc>>

(* the statement under the guard (try_trigger, contains, insert, remove,
   clone) and the end of its block, which drops the guard *)
mutex_unlock(who) ==
    /\ At(who).kind = "critical"
    /\ mutex.holder = who
    /\ \E pos \in At(who).next :
          mutex' = [holder |-> None, pc |-> [mutex.pc EXCEPT ![who] = pos]]
    /\ UNCHANGED <<notLateVars, kbd, input_monitor, probe_pc>>

(* a blocking call returns: fetch_events, read_events_blocking,
   thread::sleep, notify_overlay *)
blocking_returns(who) ==
    /\ At(who).kind = "blocking"
    /\ \E pos \in At(who).next :
          mutex' = [mutex EXCEPT !.pc[who] = pos]
    /\ UNCHANGED <<notLateVars, kbd, input_monitor, probe_pc>>

(* code between the lock blocks; a thread::spawn of main starts a monitor
   thread at the top of monitor_device *)
thread_step(who) ==
    /\ At(who).kind = "step"
    /\ \E pos \in At(who).next, born \in Spawns(mutex.pc[who]) :
          mutex' = [mutex EXCEPT !.pc =
                       [t \in Lockers |->
                           IF t = who THEN pos
                           ELSE IF who = "main" /\ t \in born
                                   THEN "insert_lock"
                                   ELSE mutex.pc[t]]]
    /\ UNCHANGED <<notLateVars, kbd, input_monitor, probe_pc>>

MutexNext ==
    \E who \in Lockers :
       \/ mutex_lock(who)
       \/ mutex_unlock(who)
       \/ blocking_returns(who)
       \/ thread_step(who)

(* a thread inside a lock block is running: the statements of the blocks do
   not wait for anything *)
MutexFairness == \A who \in Lockers : WF_vars(mutex_unlock(who))

\* ---- claims about the input daemon ----

FiredCalls == {i \in DOMAIN calls : calls[i].fired}

NotifyPending == Cardinality({t \in Tids : threads[t].pc = "notify_overlay"})

(* C1: global debounce. Any two calls of try_trigger that returned true are
   more than 300 ms apart, whichever monitor threads made them; of two calls
   at most 300 ms apart at most one returns true, and the first call after
   the daemon starts returns true, so two presses 50 ms apart on two devices
   give exactly one trigger; every trigger is followed by exactly one
   notify_overlay call, which writes at most one toggle_overlay message. *)
C1_GlobalDebounce ==
    /\ \A i, j \in FiredCalls :
          i < j => calls[j].t - calls[i].t > Ms(HOTKEY_DEBOUNCE_MS)
    /\ \A i, j \in DOMAIN calls :
          (i < j /\ calls[j].t - calls[i].t <= Ms(HOTKEY_DEBOUNCE_MS))
             => ~(calls[i].fired /\ calls[j].fired)
    /\ Len(calls) >= 1 => calls[1].fired
    /\ (/\ Len(calls) >= 2
        /\ calls[2].t - calls[1].t = Ms(50)
        /\ calls[1].dev # calls[2].dev)
          => (calls[1].fired /\ ~calls[2].fired)
    /\ notified + skipped + NotifyPending = Cardinality(FiredCalls)

(* C1 witness: two presses 50 ms apart on two devices were handled, and one
   toggle_overlay message was written. *)
C1_Witness ==
    /\ Len(calls) = 2
    /\ calls[2].t - calls[1].t = Ms(50)
    /\ calls[1].dev # calls[2].dev
    /\ calls[1].fired /\ ~calls[2].fired
    /\ NotifyPending = 0
    /\ notified = 1

(* the last call before call j that returned true, 0 if there is none *)
LastFiredBefore(j) ==
    LET before == {i \in FiredCalls : i < j}
    IN  IF before = {} THEN 0
        ELSE CHOOSE i \in before : \A k \in before : k <= i

(* C30 as stated: a press dropped by the debounce leaves last_hotkey_time
   unchanged, and a call returns true exactly if more than 300 ms have
   passed since the last call that returned true; the first press after the
   daemon starts is emitted. *)
C30_ToggleAfter300ms ==
    /\ last_hotkey_time =
          IF FiredCalls = {} THEN StartTime - Ms(1000)
          ELSE calls[LastFiredBefore(Len(calls) + 1)].t
    /\ \A j \in DOMAIN calls :
          LET i == LastFiredBefore(j)
          IN  IF i = 0 THEN calls[j].fired
              ELSE calls[j].fired
                      <=> calls[j].t - calls[i].t > Ms(HOTKEY_DEBOUNCE_MS)

(* C30, with the time as try_trigger measures it: a press dropped by the
   debounce leaves last_hotkey_time unchanged. last_hotkey_time is the time of the last call that returned true (one
   second before the start if there is none), so a call returns true exactly
   if more than 300 whole milliseconds have passed since the last call that
   returned true, however many dropped presses lie in between; a press
   exactly 300 ms after the last emission is dropped, and the first press
   after the daemon starts is emitted. *)
C30_DroppedPressKeepsWindow ==
    /\ last_hotkey_time =
          IF FiredCalls = {} THEN StartTime - Ms(1000)
          ELSE calls[LastFiredBefore(Len(calls) + 1)].t
    /\ \A j \in DOMAIN calls :
          LET i == LastFiredBefore(j)
          IN  IF i = 0 THEN calls[j].fired
              ELSE /\ calls[j].fired
                         <=> as_millis(calls[j].t - calls[i].t)
                                > HOTKEY_DEBOUNCE_MS
                   /\ calls[j].t - calls[i].t = Ms(HOTKEY_DEBOUNCE_MS)
                         => ~calls[j].fired

(* three presses, each less than 300 ms after the one before: the second
   was dropped and the third, more than 300 ms after the first, emitted *)
C30_Witness ==
    /\ Len(calls) = 3
    /\ calls[1].fired /\ ~calls[2].fired /\ calls[3].fired
    /\ calls[2].t - calls[1].t < Ms(HOTKEY_DEBOUNCE_MS)
    /\ calls[3].t - calls[2].t < Ms(HOTKEY_DEBOUNCE_MS)

(* C37: the thread that holds the lock on GlobalState is inside one of the
   lock blocks, never in a device read, the inotify read, a sleep or the
   socket connect and write; and a lock that is held is released again. *)
C37_LockNotHeldWhileBlocking ==
    /\ [](mutex.holder # None => At(mutex.holder).kind = "critical")
    /\ [](\A who \in Lockers :
             (mutex.holder = who) ~> (mutex.holder = None))

(* a monitor thread holds the lock in toggle_overlay while main is blocked
   in the inotify read and the other monitor in notify_overlay *)
C37_Witness ==
    /\ mutex.holder = "monitor1"
    /\ mutex.pc["monitor1"] = "try_trigger"
    /\ mutex.pc["monitor2"] = "notify_overlay"
    /\ mutex.pc["main"] = "read_events"

(* a monitor thread that was spawned and has not left its read loop *)
Running(t) ==
    threads[t].pc \in {"start", "fetch_events", "notify_overlay"}

MonitorsOf(p) == {t \in Tids : Running(t) /\ threads[t].path = p}

(* C3: hotplug idempotence. In every interleaving of the startup spawning,
   inotify events and monitor-thread exits there is at most one running
   monitor thread per device path. *)
C3_OneMonitorPerPath == \A p \in Paths : Cardinality(MonitorsOf(p)) <= 1

(* C40: monitored_devices contains the path of every running monitor
   thread; in particular the exit of a thread never removes the entry of
   another thread that is monitoring the same path. *)
C40_MonitoredSetAccurate ==
    \A t \in Tids : Running(t) => threads[t].path \in monitored_devices

(* the monitor threads that were spawned for a path *)
ThreadsOf(p) == {t \in Tids : threads[t].path = p}

(* every monitor thread of the path has removed the path and returned *)
MonitorsExited(p) ==
    /\ ThreadsOf(p) # {}
    /\ \A t \in ThreadsOf(p) : threads[t].pc = "done"

(* C15: device disconnect and re-plug. A monitor thread leaves its read loop
   only on a read error other than WouldBlock (the device is gone); it then
   removes its path from monitored_devices and exits.  Afterwards an inotify
   event for that path is not skipped as already monitored, and with an
   openable relevant device the scanner inserts the path and spawns a new
   monitor thread for it. *)
C15_DisconnectAndReplug ==
    [][/\ \A t \in Tids :
             /\ (threads[t].pc = "fetch_events" /\ threads'[t] # threads[t])
                   => /\ threads'[t] = [threads[t] EXCEPT !.pc = "remove"]
                      /\ threads[t].path \notin present
             /\ (threads[t].pc = "remove" /\ threads'[t] # threads[t])
                   => /\ threads'[t] = [threads[t] EXCEPT !.pc = "done"]
                      /\ threads[t].path \notin monitored_devices'
             /\ threads[t].pc = "done" => threads'[t] = threads[t]
       /\ (/\ main_pc = "check_monitored" /\ main_pc' # main_pc
           /\ MonitorsExited(main_path))
             => main_pc' = "open" /\ main_path' = main_path
       /\ (main_pc = "open" /\ main_pc' # main_pc /\ main_path \in present)
             => main_pc' = "insert" /\ main_path' = main_path
       /\ (main_pc = "insert" /\ main_pc' # main_pc)
             => /\ main_pc' = "spawn" /\ main_path' = main_path
                /\ main_path \in monitored_devices'
       /\ (main_pc = "spawn" /\ main_pc' # main_pc)
             => \E t \in Tids :
                   /\ threads[t].pc = "unborn"
                   /\ threads'[t] = [path |-> main_path, pc |-> "start"]
      ]_vars

(* C15 witness: the monitor thread of a path has exited after a read error
   and a newer thread monitors the re-plugged device *)
C15_Witness ==
    \E p \in Paths : \E t, u \in Tids :
        /\ t < u
        /\ threads[t] = [path |-> p, pc |-> "done"]
        /\ threads[u] = [path |-> p, pc |-> "fetch_events"]
        /\ ThreadsOf(p) = {t, u}
        /\ p \in present
        /\ p \in monitored_devices


\* ---- shutdown: the running flag, device_scanner's loop, the joins ----

(* main: running = AtomicBool::new(true); device_scanner not entered yet *)
ShutdownInit ==
    /\ running = TRUE
    /\ scanner_pc = "init"

(* a monitor thread can be spawned for every event still to be handled, so
   that no spawn waits on the bound MaxThreads *)
SpawnCapacity ==
    Cardinality(FreeTids) >
        Len(inotify_q) + Cardinality(initial_devices)
           + (IF main_pc \in {"find_input_devices"} THEN Cardinality(present)
              ELSE 0)
           + (IF main_pc \in {"check_monitored", "open", "insert", "spawn"}
              THEN 1 ELSE 0)

(* SIGINT / Ctrl-C once ctrlc::set_handler has run: the handler stores
   false in the running flag *)
sigint ==
    /\ main_pc # "find_input_devices"
    /\ running
    /\ running' = FALSE
    /\ UNCHANGED scanner_pc
    /\ UNCHANGED inputVars
    /\ UNCHANGED notShutVars

(* device_scanner: Inotify::init and watches().add; on an error of either,
   return handles *)
scanner_inotify_init(ok) ==
    /\ main_pc = "read_events"
    /\ scanner_pc = "init"
    /\ IF ok THEN scanner_pc' = "loop_top" /\ UNCHANGED main_pc
             ELSE scanner_pc' = "returned" /\ main_pc' = "join"
    /\ UNCHANGED running
    /\ UNCHANGED <<clock, last_hotkey_time, monitored_devices, present,
                   inotify_q, main_path, initial_devices, threads, calls,
                   notified, skipped, overlay_socket>>
    /\ UNCHANGED notShutVars

(* device_scanner: loop { if !running.load() { break; } ..., then the call
   of read_events_blocking *)
scanner_loop_top ==
    /\ main_pc = "read_events"
    /\ scanner_pc = "loop_top"
    /\ IF running THEN scanner_pc' = "blocked" /\ UNCHANGED main_pc
                  ELSE scanner_pc' = "returned" /\ main_pc' = "join"
    /\ UNCHANGED running
    /\ UNCHANGED <<clock, last_hotkey_time, monitored_devices, present,
                   inotify_q, main_path, initial_devices, threads, calls,
                   notified, skipped, overlay_socket>>
    /\ UNCHANGED notShutVars

(* device_scanner: read_events_blocking returns an event, and the for loop
   breaks when the flag is false *)
scanner_read_returns ==
    /\ main_pc = "read_events"
    /\ scanner_pc = "blocked"
    /\ inotify_q # <<>>
    /\ inotify_q' = Tail(inotify_q)
    /\ scanner_pc' = "loop_top"
    /\ IF running
          THEN main_path' = Head(inotify_q) /\ main_pc' = "check_monitored"
          ELSE UNCHANGED <<main_path, main_pc>>
    /\ UNCHANGED running
    /\ UNCHANGED <<clock, last_hotkey_time, monitored_devices, present,
                   initial_devices, threads, calls, notified, skipped,
                   overlay_socket>>
    /\ UNCHANGED notShutVars

(* device_scanner: read_events_blocking returns Err; after the 1000 ms
   sleep the loop starts over *)
scanner_read_error ==
    /\ main_pc = "read_events"
    /\ scanner_pc = "blocked"
    /\ scanner_pc' = "loop_top"
    /\ UNCHANGED running
    /\ UNCHANGED inputVars
    /\ UNCHANGED notShutVars

(* monitor_device: while running.load() is false at the top of the loop
   (fetch_events returned, with WouldBlock or with events) *)
monitor_stop(t) ==
    /\ threads[t].pc = "fetch_events"
    /\ ~running
    /\ threads' = [threads EXCEPT ![t].pc = "remove"]
    /\ UNCHANGED <<running, scanner_pc>>
    /\ UNCHANGED <<clock, last_hotkey_time, monitored_devices, present,
                   inotify_q, main_pc, main_path, initial_devices, calls,
                   notified, skipped, overlay_socket>>
    /\ UNCHANGED notShutVars

(* main: for handle in handles { handle.join() }, then Ok(()) *)
main_join ==
    /\ main_pc = "join"
    /\ \A t \in Tids : threads[t].pc \in {"unborn", "done"}
    /\ main_pc' = "exited"
    /\ UNCHANGED <<running, scanner_pc>>
    /\ UNCHANGED <<clock, last_hotkey_time, monitored_devices, present,
                   inotify_q, main_path, initial_devices, threads, calls,
                   notified, skipped, overlay_socket>>
    /\ UNCHANGED notShutVars

(* what the daemon's threads do on their own *)
ShutdownDaemonNext ==
    \/ find_input_devices
    \/ spawn_initial
    \/ \E ok \in BOOLEAN : scanner_inotify_init(ok)
    \/ scanner_loop_top
    \/ scanner_read_returns
    \/ scanner_check_monitored
    \/ scanner_open
    \/ scanner_insert
    \/ scanner_spawn
    \/ \E t \in Tids : monitor_insert(t)
    \/ \E t \in Tids : monitor_read_error(t)
    \/ \E t \in Tids : monitor_stop(t)
    \/ \E t \in Tids : monitor_remove(t)
    \/ main_join

(* what happens to the daemon: devices come and go, a read fails, SIGINT *)
ShutdownEnvNext ==
    \/ \E p \in Paths : SpawnCapacity /\ Plug(p)
    \/ \E p \in Paths : Unplug(p)
    \/ \E p \in Paths : SpawnCapacity /\ Attrib(p)
    \/ scanner_read_error
    \/ sigint

ShutdownNext == ShutdownDaemonNext \/ ShutdownEnvNext

(* every thread of the daemon that can take a step takes one *)
ShutdownFairness ==
    /\ WF_vars(find_input_devices)
    /\ WF_vars(spawn_initial)
    /\ WF_vars(\E ok \in BOOLEAN : scanner_inotify_init(ok))
    /\ WF_vars(scanner_loop_top)
    /\ WF_vars(scanner_read_returns)
    /\ WF_vars(scanner_check_monitored)
    /\ WF_vars(scanner_open)
    /\ WF_vars(scanner_insert)
    /\ WF_vars(scanner_spawn)
    /\ WF_vars(main_join)
    /\ \A t \in Tids :
          /\ WF_vars(monitor_insert(t))
          /\ WF_vars(monitor_read_error(t))
          /\ WF_vars(monitor_stop(t))
          /\ WF_vars(monitor_remove(t))

(* C14: input daemon shutdown. After SIGINT has set running to false the
   daemon eventually terminates in every execution, also when no device
   event and no inotify event follows the signal: the monitor threads and
   the scanner loop see the flag and return, main joins the handles and
   exits. *)
C14_ShutdownTerminates == (~running) ~> (main_pc = "exited")


(***************************************************************************)
(*                       OVERLAY STATE MACHINE                             *)
(***************************************************************************)

\* Bounds of the overlay model.
MaxToasts == 1           \* toasts queued at once

\* Program constants.
MAX_VISIBLE_MAIN == 6
MAX_VISIBLE_MENU_CUSTOMIZATION == 6
MAX_VISIBLE_THEME == 5
SETTINGS_OPTIONS == 2
CONTROLLER_MENU_OPTIONS == 6
THEME_COUNT == 5
max_visible == 3

(* ipc.rs: enum OverlayScreen *)
OverlayScreen ==
    {"Main", "Settings", "Achievements", "Performance", "Playtime",
     "Controllers", "BluetoothPairing", "ControllerAssign", "GamepadTester",
     "HotkeySettings", "MenuCustomization", "ThemeSelection", "QuitConfirm"}

(* input.rs: enum ControllerInput *)
ControllerInput ==
    {"Up", "Down", "Left", "Right", "Select", "Back", "Secondary", "Guide",
     "LB", "RB", "LT", "RT"}

(* menu_config.rs: MenuItemId::all, in order *)
MenuItemId_all ==
    <<"Controllers", "Settings", "Achievements", "Performance", "Playtime",
      "QuickSave", "Resume", "Quit">>

(* the menu configurations found on disk by MenuConfigManager::new, each given
   by its get_visible_items(): one hides the Settings entry, one shows only
   Settings, Resume and Quit *)
MenuConfigs ==
    {<<"Controllers", "Achievements", "Performance", "Playtime", "QuickSave",
       "Resume", "Quit">>,
     <<"Settings", "Resume", "Quit">>}

(* MenuConfig::get_visible_items *)
get_visible_items(st) == st.menu_config

(* ToastManager::add_toast: push_back a toast created now *)
add_toast(st, style, duration_ms) ==
    [st EXCEPT !.toasts =
        Append(@, [style |-> style, duration |-> duration_ms, age |-> 0])]

(* OverlayState::new, with the menu configuration that was loaded *)
OverlayState_new(config) ==
    [menu_config |-> config,
     visible |-> FALSE,
     current_screen |-> "Main",
     selected_option |-> 0,
     main_menu_scroll_offset |-> 0,
     settings_selected_option |-> 0,
     menu_customization_selected |-> 0,
     menu_customization_scroll_offset |-> 0,
     theme_selected |-> 0,
     theme_selection_scroll_offset |-> 0,
     quit_confirm_selected |-> 0,
     selected_menu_item |-> 0,
     toasts |-> <<>>]

(* OverlayState::toggle_visibility without the reset on opening *)
toggle_visibility_no_reset(st) == [st EXCEPT !.visible = ~st.visible]

(* OverlayState::toggle_visibility *)
toggle_visibility(st) ==
    IF ~st.visible
       THEN [st EXCEPT !.visible = TRUE,
                       !.current_screen = "Main",
                       !.selected_option = 0]
       ELSE [st EXCEPT !.visible = FALSE]

(* OverlayState::adjust_scroll_offset: the new scroll offset *)
adjust_scroll_offset(selected, scroll_offset, max_vis, total_items) ==
    LET moved == IF selected < scroll_offset
                    THEN selected
                    ELSE IF selected >= scroll_offset + max_vis
                            THEN selected - max_vis + 1
                            ELSE scroll_offset
        max_scroll == saturating_sub(total_items, max_vis)
    IN  IF moved > max_scroll THEN max_scroll ELSE moved

(* OverlayState::handle_main_menu_input *)
handle_main_menu_input(st, input) ==
    LET visible_items == get_visible_items(st)
        item_count == Len(visible_items)
    IN  CASE input = "Up" ->
               IF st.selected_option > 0
                  THEN [st EXCEPT
                          !.selected_option = st.selected_option - 1,
                          !.main_menu_scroll_offset =
                              adjust_scroll_offset(st.selected_option - 1, @,
                                                   MAX_VISIBLE_MAIN, item_count)]
                  ELSE st
          [] input = "Down" ->
               IF st.selected_option < saturating_sub(item_count, 1)
                  THEN [st EXCEPT
                          !.selected_option = st.selected_option + 1,
                          !.main_menu_scroll_offset =
                              adjust_scroll_offset(st.selected_option + 1, @,
                                                   MAX_VISIBLE_MAIN, item_count)]
                  ELSE st
          [] input = "Select" ->
               IF st.selected_option < Len(visible_items)
                  THEN LET menu_item_id == visible_items[st.selected_option + 1]
                       IN  CASE menu_item_id = "Achievements" ->
                                  [st EXCEPT !.current_screen = "Achievements"]
                             [] menu_item_id = "Performance" ->
                                  [st EXCEPT !.current_screen = "Performance"]
                             [] menu_item_id = "Settings" ->
                                  [st EXCEPT !.current_screen = "Settings",
                                             !.settings_selected_option = 0]
                             [] menu_item_id = "Controllers" ->
                                  [st EXCEPT !.current_screen = "Controllers",
                                             !.selected_menu_item = 0]
                             [] menu_item_id = "Playtime" ->
                                  [st EXCEPT !.current_screen = "Playtime"]
                             [] menu_item_id = "QuickSave" -> st
                             [] menu_item_id = "Resume" ->
                                  [st EXCEPT !.visible = FALSE]
                             [] menu_item_id = "Quit" ->
                                  [st EXCEPT !.current_screen = "QuitConfirm",
                                             !.quit_confirm_selected = 0]
                  ELSE st
          [] input \in {"Back", "Guide"} -> [st EXCEPT !.visible = FALSE]
          [] OTHER -> st

(* handle_achievements_input, handle_performance_input, handle_playtime_input *)
handle_back_to_main_input(st, input) ==
    IF input = "Back" THEN [st EXCEPT !.current_screen = "Main"] ELSE st

(* OverlayState::handle_settings_input *)
handle_settings_input(st, input) ==
    CASE input = "Up" ->
           IF st.settings_selected_option > 0
              THEN [st EXCEPT !.settings_selected_option = @ - 1]
              ELSE st
      [] input = "Down" ->
           IF st.settings_selected_option < SETTINGS_OPTIONS - 1
              THEN [st EXCEPT !.settings_selected_option = @ + 1]
              ELSE st
      [] input = "Select" ->
           CASE st.settings_selected_option = 0 ->
                  [st EXCEPT !.current_screen = "MenuCustomization",
                             !.menu_customization_selected = 0]
             [] st.settings_selected_option = 1 ->
                  [st EXCEPT !.current_screen = "ThemeSelection",
                             !.theme_selected = 0]
             [] OTHER -> st
      [] input = "Back" -> [st EXCEPT !.current_screen = "Main"]
      [] OTHER -> st

(* OverlayState::handle_controllers_input *)
handle_controllers_input(st, input) ==
    CASE input = "Up" ->
           IF st.selected_menu_item > 0
              THEN [st EXCEPT !.selected_menu_item = @ - 1]
              ELSE st
      [] input = "Down" ->
           IF st.selected_menu_item < CONTROLLER_MENU_OPTIONS - 1
              THEN [st EXCEPT !.selected_menu_item = @ + 1]
              ELSE st
      [] input = "Select" ->
           CASE st.selected_menu_item = 1 ->
                  [st EXCEPT !.current_screen = "GamepadTester"]
             [] st.selected_menu_item = 3 ->
                  [st EXCEPT !.current_screen = "HotkeySettings"]
             [] OTHER -> st
      [] input = "Back" ->
           [st EXCEPT !.current_screen = "Main", !.selected_option = 3]
      [] OTHER -> st

(* OverlayState::handle_gamepad_tester_input *)
handle_gamepad_tester_input(st, input) ==
    IF input = "Back"
       THEN [st EXCEPT !.current_screen = "Controllers",
                       !.selected_menu_item = 1]
       ELSE st

(* OverlayState::handle_hotkey_settings_input *)
handle_hotkey_settings_input(st, input) ==
    IF input = "Back"
       THEN [st EXCEPT !.current_screen = "Controllers",
                       !.selected_menu_item = 3]
       ELSE st

(* OverlayState::handle_menu_customization_input *)
handle_menu_customization_input(st, input) ==
    LET item_count == Len(MenuItemId_all) IN
    CASE input = "Up" ->
           IF st.menu_customization_selected > 0
              THEN [st EXCEPT
                      !.menu_customization_selected = @ - 1,
                      !.menu_customization_scroll_offset =
                          adjust_scroll_offset(
                              st.menu_customization_selected - 1, @,
                              MAX_VISIBLE_MENU_CUSTOMIZATION, item_count)]
              ELSE st
      [] input = "Down" ->
           IF st.menu_customization_selected < saturating_sub(item_count, 1)
              THEN [st EXCEPT
                      !.menu_customization_selected = @ + 1,
                      !.menu_customization_scroll_offset =
                          adjust_scroll_offset(
                              st.menu_customization_selected + 1, @,
                              MAX_VISIBLE_MENU_CUSTOMIZATION, item_count)]
              ELSE st
      [] input = "Back" ->
           [st EXCEPT !.current_screen = "Settings",
                      !.settings_selected_option = 0]
      [] OTHER -> st

(* OverlayState::handle_theme_selection_input; set_ok is whether
   theme_config.set_theme succeeded *)
handle_theme_selection_input(st, input, set_ok) ==
    CASE input = "Up" ->
           IF st.theme_selected > 0
              THEN [st EXCEPT
                      !.theme_selected = @ - 1,
                      !.theme_selection_scroll_offset =
                          adjust_scroll_offset(st.theme_selected - 1, @,
                                               MAX_VISIBLE_THEME, THEME_COUNT)]
              ELSE st
      [] input = "Down" ->
           IF st.theme_selected < saturating_sub(THEME_COUNT, 1)
              THEN [st EXCEPT
                      !.theme_selected = @ + 1,
                      !.theme_selection_scroll_offset =
                          adjust_scroll_offset(st.theme_selected + 1, @,
                                               MAX_VISIBLE_THEME, THEME_COUNT)]
              ELSE st
      [] input = "Select" ->
           IF st.theme_selected < THEME_COUNT
              THEN IF set_ok THEN add_toast(st, "Info", 2000)
                             ELSE add_toast(st, "Error", 3000)
              ELSE st
      [] input = "Back" ->
           [st EXCEPT !.current_screen = "Settings",
                      !.settings_selected_option = 1]
      [] OTHER -> st

(* OverlayState::handle_quit_confirm_input; quit_ok is whether
   signal_game_quit returned Ok *)
handle_quit_confirm_input(st, input, quit_ok) ==
    CASE input \in {"Up", "Down", "Left", "Right"} ->
           [st EXCEPT !.quit_confirm_selected = IF @ = 0 THEN 1 ELSE 0]
      [] input = "Select" ->
           IF st.quit_confirm_selected = 1
              THEN LET told == add_toast(st, "Info", 2000)
                       failed == IF quit_ok THEN told
                                            ELSE add_toast(told, "Error", 3000)
                   IN  [failed EXCEPT !.visible = FALSE]
              ELSE [st EXCEPT !.current_screen = "Main",
                              !.selected_option = 5]
      [] input = "Back" ->
           [st EXCEPT !.current_screen = "Main", !.selected_option = 5]
      [] OTHER -> st

(* signal_game_quit reached by Select whichever button is selected *)
calls_signal_game_quit_any_button(st, input) ==
    /\ st.visible
    /\ st.current_screen = "QuitConfirm"
    /\ input = "Select"

(* whether this input, in this state, reaches signal_game_quit: Select on the
   quit confirmation with quit_confirm_selected == 1 *)
calls_signal_game_quit(st, input) ==
    /\ st.visible
    /\ st.current_screen = "QuitConfirm"
    /\ input = "Select"
    /\ st.quit_confirm_selected = 1

(* OverlayState::handle_input *)
handle_input(st, input, io_ok) ==
    IF ~st.visible THEN st
    ELSE CASE st.current_screen = "Main" -> handle_main_menu_input(st, input)
           [] st.current_screen \in {"Achievements", "Performance", "Playtime"}
                -> handle_back_to_main_input(st, input)
           [] st.current_screen = "Settings" -> handle_settings_input(st, input)
           [] st.current_screen = "Controllers"
                -> handle_controllers_input(st, input)
           [] st.current_screen = "GamepadTester"
                -> handle_gamepad_tester_input(st, input)
           [] st.current_screen = "HotkeySettings"
                -> handle_hotkey_settings_input(st, input)
           [] st.current_screen = "MenuCustomization"
                -> handle_menu_customization_input(st, input)
           [] st.current_screen = "ThemeSelection"
                -> handle_theme_selection_input(st, input, io_ok)
           [] st.current_screen = "QuitConfirm"
                -> handle_quit_confirm_input(st, input, io_ok)
           [] OTHER -> st

(* ipc.rs: the OverlayMessage values sent to the overlay, by their type tag *)
OverlayMessage ==
    [type : {"hide_overlay", "toggle_overlay", "get_status", "quit_game",
             "quit_game_ack"}]
    \cup [type : {"show_overlay"}, screen : OverlayScreen]
    \cup [type : {"show_toast"}, duration_ms : {1, 2, 2000}]

(* the messages that clients send in a run of the state machine *)
SentMessages ==
    {m \in OverlayMessage :
        /\ m.type = "show_overlay"
              => m.screen \in {"Main", "QuitConfirm", "BluetoothPairing"}
        /\ m.type = "show_toast" => m.duration_ms = 2000}

(* OverlayState::handle_message: the arms of the match; a message with no arm
   changes nothing *)
handle_message(st, message) ==
    CASE message.type = "show_overlay" ->
           [st EXCEPT !.visible = TRUE, !.current_screen = message.screen]
      [] message.type = "hide_overlay" -> [st EXCEPT !.visible = FALSE]
      [] message.type = "show_toast" ->
           add_toast(st, "Info", message.duration_ms)
      [] message.type = "quit_game" -> st
      [] message.type = "quit_game_ack" -> add_toast(st, "Info", 2000)
      [] OTHER -> st

\* ---- the overlay's main loop (src/overlay/src/main.rs) ----

NoOp == [op |-> None, was_visible |-> FALSE, was_screen |-> None]

(* the record of an operation that toggles: what it was applied to *)
Toggled(op) ==
    [op |-> op, was_visible |-> overlay_state.visible,
     was_screen |-> overlay_state.current_screen]

OverlayInit ==
    /\ \E config \in MenuConfigs : overlay_state = OverlayState_new(config)
    /\ quit_file = FALSE
    /\ last_op = NoOp

(* main: check_hotkey_pressed() is true, so toggle_visibility runs *)
hotkey_toggle ==
    /\ overlay_state' = toggle_visibility(overlay_state)
    /\ last_op' = Toggled("toggle_visibility")
    /\ UNCHANGED quit_file
    /\ UNCHANGED notOverlayVars

(* how signal_game_quit or set_theme can end *)
IoOutcomes(input) ==
    IF /\ input = "Select"
       /\ overlay_state.current_screen \in {"ThemeSelection", "QuitConfirm"}
       THEN {"ok", "create_failed", "write_failed"}
       ELSE {"ok"}

(* main: for input in poll_inputs() { handle_input(input) }, one input; io is
   how the file operation of the handler ends, when it makes one *)
poll_input(input, io) ==
    /\ overlay_state.visible
    /\ overlay_state' = handle_input(overlay_state, input, io = "ok")
    /\ Len(overlay_state'.toasts) <= MaxToasts
    /\ quit_file' = IF calls_signal_game_quit(overlay_state, input)
                        /\ io # "create_failed"
                       THEN TRUE
                       ELSE quit_file
    /\ last_op' = NoOp
    /\ UNCHANGED notOverlayVars

(* main: for message in poll_messages() { handle_message(message) }, one
   message *)
poll_message(message) ==
    /\ overlay_state' = handle_message(overlay_state, message)
    /\ Len(overlay_state'.toasts) <= MaxToasts
    /\ last_op' = IF message.type = "toggle_overlay"
                     THEN Toggled("toggle_overlay")
                     ELSE NoOp
    /\ UNCHANGED quit_file
    /\ UNCHANGED notOverlayVars

OverlayNext ==
    \/ hotkey_toggle
    \/ \E input \in ControllerInput :
          \E io \in IoOutcomes(input) : poll_input(input, io)
    \/ \E message \in SentMessages : poll_message(message)

\* ---- claims about the overlay state machine ----

(* render_overlay_menu draws this screen *)
Rendered(screen) ==
    overlay_state.visible /\ overlay_state.current_screen = screen

(* the selected row lies in the window of max_vis rows that starts at
   scroll_offset, and the window does not start past the last full page *)
InWindow(selected, scroll_offset, max_vis, total) ==
    /\ scroll_offset <= selected
    /\ selected < scroll_offset + max_vis
    /\ scroll_offset <= saturating_sub(total, max_vis)

(* C4: selection/scroll invariant. Whenever the main menu, the menu
   customization screen or the theme selection screen is rendered, its
   selected index lies within [scroll_offset, scroll_offset + MAX_VISIBLE)
   and scroll_offset is at most max(0, total - MAX_VISIBLE). *)
C4_SelectionInWindow ==
    /\ Rendered("Main") =>
          InWindow(overlay_state.selected_option,
                   overlay_state.main_menu_scroll_offset,
                   MAX_VISIBLE_MAIN, Len(get_visible_items(overlay_state)))
    /\ Rendered("MenuCustomization") =>
          InWindow(overlay_state.menu_customization_selected,
                   overlay_state.menu_customization_scroll_offset,
                   MAX_VISIBLE_MENU_CUSTOMIZATION, Len(MenuItemId_all))
    /\ Rendered("ThemeSelection") =>
          InWindow(overlay_state.theme_selected,
                   overlay_state.theme_selection_scroll_offset,
                   MAX_VISIBLE_THEME, THEME_COUNT)

(* the quit confirmation is up with the Quit button selected *)
QuitSelected ==
    /\ overlay_state.visible
    /\ overlay_state.current_screen = "QuitConfirm"
    /\ overlay_state.quit_confirm_selected = 1

(* C7: quit signal. The quit-signal file comes into existence only in a step
   that handles Select on the quit confirmation with Quit selected while the
   overlay is visible, and that step hides the overlay; such a step whose
   file operations succeed leaves the file in place; Select with Cancel
   selected, Back, directions, the hotkey and messages never create it. *)
C7_QuitSignal ==
    [][/\ (quit_file' # quit_file) =>
             /\ QuitSelected
             /\ \E io \in {"ok", "write_failed"} : poll_input("Select", io)
             /\ ~overlay_state'.visible
       /\ (QuitSelected /\ poll_input("Select", "ok")) =>
             (quit_file' /\ ~overlay_state'.visible)
       /\ (QuitSelected /\ \E io \in IoOutcomes("Select") :
                              poll_input("Select", io)) =>
             ~overlay_state'.visible]_vars

(* C7 witness: Select on the quit confirmation with Quit selected was handled:
   the file exists, the overlay is hidden on that screen and the toast of
   the quit path is queued. *)
C7_Witness ==
    /\ quit_file
    /\ ~overlay_state.visible
    /\ overlay_state.current_screen = "QuitConfirm"
    /\ overlay_state.quit_confirm_selected = 1
    /\ overlay_state.toasts =
          <<[style |-> "Info", duration |-> 2000, age |-> 0]>>
    /\ last_op = NoOp

(* C8: a toggle_overlay message that the overlay handles flips its
   visibility, with the effect of the hotkey: a hidden overlay becomes
   visible on Main with selection 0, a visible one becomes hidden. *)
C8_ToggleMessageFlips ==
    last_op.op = "toggle_overlay" =>
       IF last_op.was_visible
          THEN ~overlay_state.visible
          ELSE /\ overlay_state.visible
               /\ overlay_state.current_screen = "Main"
               /\ overlay_state.selected_option = 0

(* C9: visibility toggle. After toggle_visibility on a hidden overlay it is
   visible with current_screen = Main and selected_option = 0, whatever
   screen it was on; after toggle_visibility on a visible overlay it is
   hidden, from any screen. *)
C9_ToggleVisibility ==
    last_op.op = "toggle_visibility" =>
       IF last_op.was_visible
          THEN ~overlay_state.visible
          ELSE /\ overlay_state.visible
               /\ overlay_state.current_screen = "Main"
               /\ overlay_state.selected_option = 0

(* C9 witness: toggle_visibility has just shown an overlay that was hidden on
   a screen other than Main. *)
C9_Witness ==
    /\ last_op.op = "toggle_visibility"
    /\ ~last_op.was_visible
    /\ last_op.was_screen \notin {"Main", None}
    /\ overlay_state.visible
    /\ overlay_state.current_screen = "Main"
    /\ overlay_state.selected_option = 0

\* ---- the quit confirmation ----

(* main: one input handled; the run is followed while fewer than MaxToasts
   toasts are queued when a handler adds some *)
main_handle_input(input, io) ==
    /\ overlay_state.visible
    /\ overlay_state' = handle_input(overlay_state, input, io = "ok")
    /\ \/ Len(overlay_state.toasts) < MaxToasts
       \/ overlay_state'.toasts = overlay_state.toasts
    /\ quit_file' = IF calls_signal_game_quit(overlay_state, input)
                        /\ io # "create_failed"
                       THEN TRUE
                       ELSE quit_file
    /\ last_op' = NoOp
    /\ UNCHANGED notOverlayVars

(* main: one message handled, under the same cap *)
main_handle_message(message) ==
    /\ overlay_state' = handle_message(overlay_state, message)
    /\ \/ Len(overlay_state.toasts) < MaxToasts
       \/ overlay_state'.toasts = overlay_state.toasts
    /\ last_op' = IF message.type = "toggle_overlay"
                     THEN Toggled("toggle_overlay")
                     ELSE NoOp
    /\ UNCHANGED quit_file
    /\ UNCHANGED notOverlayVars

QuitConfirmNext ==
    \/ hotkey_toggle
    \/ \E input \in ControllerInput :
          \E io \in IoOutcomes(input) : main_handle_input(input, io)
    \/ \E message \in SentMessages : main_handle_message(message)

(* the index of the Quit entry in the visible main-menu list is selected *)
QuitEntrySelected(st) ==
    /\ st.selected_option < Len(get_visible_items(st))
    /\ get_visible_items(st)[st.selected_option + 1] = "Quit"

(* C21: when Quit is confirmed on the quit confirmation and the write of the
   quit-signal file fails, an error toast is queued and the overlay is still
   visible afterwards. *)
C21_QuitWriteFailureStays ==
    [][\A io \in {"create_failed", "write_failed"} :
          (QuitSelected /\ main_handle_input("Select", io)) =>
             /\ Len(overlay_state'.toasts) > 0
             /\ overlay_state'.toasts[Len(overlay_state'.toasts)].style
                   = "Error"
             /\ overlay_state'.visible]_vars

(* C22: Select with Cancel selected, and Back, on the quit confirmation
   lead to Main with selected_option at the index of the Quit entry of the
   visible main-menu list. *)
C22_CancelReselectsQuit ==
    [][(/\ Rendered("QuitConfirm")
        /\ \/ main_handle_input("Back", "ok")
           \/ /\ overlay_state.quit_confirm_selected = 0
              /\ main_handle_input("Select", "ok")) =>
          /\ overlay_state'.visible
          /\ overlay_state'.current_screen = "Main"
          /\ QuitEntrySelected(overlay_state')]_vars

(* C23: the quit confirmation comes up only from Main and with Cancel
   selected; a direction flips the selection; Back leads to Main without
   the quit signal whichever button is selected; Select on Main's Quit
   entry followed by Select never signals the quit. *)
C23_QuitConfirmSelection ==
    [][/\ (Rendered("QuitConfirm")' /\ ~Rendered("QuitConfirm")) =>
             /\ overlay_state.current_screen = "Main"
             /\ overlay_state'.quit_confirm_selected = 0
       /\ \A input \in {"Up", "Down", "Left", "Right"} :
             (Rendered("QuitConfirm") /\ main_handle_input(input, "ok")) =>
                /\ overlay_state'.quit_confirm_selected
                      = 1 - overlay_state.quit_confirm_selected
                /\ overlay_state'.quit_confirm_selected \in {0, 1}
       /\ (Rendered("QuitConfirm") /\ main_handle_input("Back", "ok")) =>
             /\ overlay_state'.current_screen = "Main"
             /\ overlay_state'.visible
             /\ quit_file' = quit_file
       /\ (/\ Rendered("Main")
           /\ QuitEntrySelected(overlay_state)
           /\ main_handle_input("Select", "ok")) =>
             /\ Rendered("QuitConfirm")'
             /\ ~calls_signal_game_quit(overlay_state', "Select")]_vars

(* the screen the claim names as the parent of a screen *)
BackParent(screen) ==
    CASE screen \in {"GamepadTester", "HotkeySettings"} -> "Controllers"
      [] screen \in {"MenuCustomization", "ThemeSelection"} -> "Settings"
      [] OTHER -> "Main"

(* C35: on every screen the overlay shows, also one entered through a
   show_overlay message, a Back input moves to the parent screen, and on
   Main it hides the overlay; so Back inputs lead to Main and then hide
   the overlay. *)
C35_BackToParent ==
    overlay_state.visible =>
       \A io_ok \in BOOLEAN :
          LET after == handle_input(overlay_state, "Back", io_ok)
          IN  IF overlay_state.current_screen = "Main"
                 THEN ~after.visible
                 ELSE /\ after.visible
                      /\ after.current_screen =
                            BackParent(overlay_state.current_screen)

(***************************************************************************)
(*                 OVERLAY PROCESSES AND THE SOCKET PATH                   *)
(***************************************************************************)

MaxOverlays == 3         \* overlay processes started in one run

Overlays == 1 .. MaxOverlays

NoFile == [kind |-> "none", owner |-> 0]

(* a regular file, or a socket file whose process is gone *)
StaleFiles == {[kind |-> "file", owner |-> 0], [kind |-> "socket", owner |-> 0]}

(* UnixListener::bind created the socket file; owner is the process *)
SocketOf(i) == [kind |-> "socket", owner |-> i]

SocketInit ==
    /\ socket_path \in {NoFile} \cup StaleFiles
    /\ servers = [i \in Overlays |-> "not_started"]

(* IpcServer::new: Path::new(SOCKET_PATH).exists() *)
new_exists(i) ==
    /\ servers[i] = "not_started"
    /\ servers' = [servers EXCEPT ![i] = IF socket_path.kind # "none"
                                            THEN "remove_file"
                                            ELSE "bind"]
    /\ UNCHANGED socket_path
    /\ UNCHANGED notSocketVars

(* IpcServer::new: std::fs::remove_file(SOCKET_PATH)?, whatever the path
   names and whoever listens on it *)
new_remove_file(i) ==
    /\ servers[i] = "remove_file"
    /\ IF socket_path.kind # "none"
          THEN /\ socket_path' = NoFile
               /\ servers' = [servers EXCEPT ![i] = "bind"]
          ELSE /\ servers' = [servers EXCEPT ![i] = "failed"]
               /\ UNCHANGED socket_path
    /\ UNCHANGED notSocketVars

(* IpcServer::new: UnixListener::bind(SOCKET_PATH)?, which fails when the
   path exists *)
new_bind(i) ==
    /\ servers[i] = "bind"
    /\ IF socket_path.kind = "none"
          THEN /\ socket_path' = SocketOf(i)
               /\ servers' = [servers EXCEPT ![i] = "listening"]
          ELSE /\ servers' = [servers EXCEPT ![i] = "failed"]
               /\ UNCHANGED socket_path
    /\ UNCHANGED notSocketVars

(* impl Drop for IpcServer: remove_file(SOCKET_PATH), errors ignored *)
drop(i) ==
    /\ servers[i] = "listening"
    /\ socket_path' = NoFile
    /\ servers' = [servers EXCEPT ![i] = "exited"]
    /\ UNCHANGED notSocketVars

(* the process is killed: no destructor runs, the socket file stays *)
kill(i) ==
    /\ servers[i] = "listening"
    /\ servers' = [servers EXCEPT ![i] = "killed"]
    /\ socket_path' = IF socket_path = SocketOf(i)
                         THEN [kind |-> "socket", owner |-> 0]
                         ELSE socket_path
    /\ UNCHANGED notSocketVars

SocketNext ==
    \/ \E i \in Overlays : new_exists(i)
    \/ \E i \in Overlays : new_remove_file(i)
    \/ \E i \in Overlays : new_bind(i)
    \/ \E i \in Overlays : drop(i)
    \/ \E i \in Overlays : kill(i)

\* ---- processes that probe the path and remove what they find stale ----

(* OverlayClient::is_available, called by any client, and the cleanup at
   the top of the BIOS's start_overlay_daemon *)
Probers == {"is_available", "start_overlay_daemon"}

ProbeInit == probe_pc = [who \in Probers |-> "idle"]

(* UnixStream::connect(path) succeeds: the path names a socket on which a
   process listens. The probe message of start_overlay_daemon is then
   written into the socket buffer, which does not fail *)
listener_answers == socket_path.kind = "socket" /\ socket_path.owner # 0

(* Path::new(path).exists(): with no file the probe is over *)
probe_exists(who) ==
    /\ probe_pc[who] = "idle"
    /\ probe_pc' = [probe_pc EXCEPT ![who] = IF socket_path.kind # "none"
                                                THEN "connect" ELSE "idle"]
    /\ UNCHANGED socket_path
    /\ UNCHANGED notProbeVars

(* UnixStream::connect: Ok ends the probe, Err leads to the cleanup *)
probe_connect(who) ==
    /\ probe_pc[who] = "connect"
    /\ probe_pc' = [probe_pc EXCEPT ![who] = IF listener_answers THEN "idle"
                                                ELSE "remove_file"]
    /\ UNCHANGED socket_path
    /\ UNCHANGED notProbeVars

(* let _ = remove_file(path): whatever the path names by now *)
probe_remove_file(who) ==
    /\ probe_pc[who] = "remove_file"
    /\ socket_path' = NoFile
    /\ probe_pc' = [probe_pc EXCEPT ![who] = "idle"]
    /\ UNCHANGED notProbeVars

(* overlay processes, clients and the BIOS on one socket path *)
ReachNext ==
    \/ SocketNext
    \/ \E who \in Probers : probe_exists(who)
    \/ \E who \in Probers : probe_connect(who)
    \/ \E who \in Probers : probe_remove_file(who)

\* ---- claims about the socket path ----

(* the process holds a listening socket that it bound to SOCKET_PATH *)
Bound(i) == servers[i] = "listening"

(* C2: socket singleton. At most one overlay process is bound to the socket
   path at any time, and the socket of a live instance is never unlinked or
   replaced: while a process listens, the path names the socket it bound. *)
C2_SocketSingleton ==
    /\ Cardinality({i \in Overlays : Bound(i)}) <= 1
    /\ \A i \in Overlays : Bound(i) => socket_path = SocketOf(i)

(* C39: while an overlay process listens, the socket path names the socket
   it bound: no probe of a client, no cleanup of the BIOS and no start or
   exit of another overlay process removes or replaces the file. *)
C39_LiveSocketStays ==
    \A i \in Overlays : servers[i] = "listening" => socket_path = SocketOf(i)

(***************************************************************************)
(*                     CONNECTIONS TO THE IPC SERVER                       *)
(***************************************************************************)

MaxConns == 2            \* connections made in one run
MaxLines == 2            \* lines a client writes on one connection

Conns == 1 .. MaxConns

(* the lines clients write: two messages that parse, and one that does not *)
Lines == {"show_toast", "hide_overlay", "garbage"}

(* serde_json::from_str::<OverlayMessage>(&line).is_ok() *)
from_str_ok(line) == line # "garbage"

NoConn == [state |-> "unused", unread |-> <<>>, sent |-> <<>>,
           client_open |-> FALSE]

IpcInit ==
    /\ conns = [c \in Conns |-> NoConn]
    /\ backlog = <<>>
    /\ poll_pc = "idle"
    /\ stream = 0
    /\ messages = <<>>
    /\ handled = <<>>

(* client: UnixStream::connect(SOCKET_PATH) *)
connect(c) ==
    /\ conns[c].state = "unused"
    /\ \A b \in Conns : b < c => conns[b].state # "unused"
    /\ conns' = [conns EXCEPT ![c] = [NoConn EXCEPT !.state = "connected",
                                                    !.client_open = TRUE]]
    /\ backlog' = Append(backlog, c)
    /\ UNCHANGED <<poll_pc, stream, messages, handled>>
    /\ UNCHANGED notIpcVars

(* client: writeln!(stream, line) on a connection it keeps open; the write
   succeeds while the server has not dropped its end *)
write_line(c, line) ==
    /\ conns[c].state = "connected"
    /\ conns[c].client_open
    /\ Len(conns[c].sent) < MaxLines
    /\ conns' = [conns EXCEPT ![c].unread = Append(@, line),
                              ![c].sent = Append(@, line)]
    /\ UNCHANGED <<backlog, poll_pc, stream, messages, handled>>
    /\ UNCHANGED notIpcVars

(* client: the stream is dropped or shut down *)
client_close(c) ==
    /\ conns[c].state \in {"connected", "dropped"}
    /\ conns[c].client_open
    /\ conns' = [conns EXCEPT ![c].client_open = FALSE]
    /\ UNCHANGED <<backlog, poll_pc, stream, messages, handled>>
    /\ UNCHANGED notIpcVars

(* main: ipc_server.poll_messages() is called *)
poll_messages ==
    /\ poll_pc = "idle"
    /\ poll_pc' = "accept"
    /\ messages' = <<>>
    /\ UNCHANGED <<conns, backlog, stream, handled>>
    /\ UNCHANGED notIpcVars

(* poll_messages: listener.accept(); on WouldBlock the loop ends and main
   handles the returned messages in order *)
accept ==
    /\ poll_pc = "accept"
    /\ IF backlog # <<>>
          THEN /\ stream' = Head(backlog)
               /\ backlog' = Tail(backlog)
               /\ poll_pc' = "read_message"
               /\ UNCHANGED <<messages, handled>>
          ELSE /\ handled' = handled \o messages
               /\ messages' = <<>>
               /\ poll_pc' = "idle"
               /\ UNCHANGED <<stream, backlog>>
    /\ UNCHANGED conns
    /\ UNCHANGED notIpcVars

(* read_message: the next item of reader.lines(). A line that parses is
   returned and the stream is dropped with what is still unread; a line that
   does not parse is logged and the loop goes on; end of file returns None.
   The read blocks while the client keeps the connection open and has
   written nothing more. *)
read_message ==
    /\ poll_pc = "read_message"
    /\ LET c == stream IN
       IF conns[c].unread # <<>>
          THEN LET line == Head(conns[c].unread) IN
               IF from_str_ok(line)
                  THEN /\ messages' = Append(messages, [conn |-> c, msg |-> line])
                       /\ conns' = [conns EXCEPT ![c].state = "dropped",
                                                 ![c].unread = <<>>]
                       /\ poll_pc' = "accept"
                       /\ stream' = 0
                  ELSE /\ conns' = [conns EXCEPT ![c].unread = Tail(@)]
                       /\ UNCHANGED <<messages, poll_pc, stream>>
          ELSE /\ ~conns[c].client_open
               /\ conns' = [conns EXCEPT ![c].state = "dropped"]
               /\ poll_pc' = "accept"
               /\ stream' = 0
               /\ UNCHANGED messages
    /\ UNCHANGED <<backlog, handled>>
    /\ UNCHANGED notIpcVars

IpcNext ==
    \/ \E c \in Conns : connect(c)
    \/ \E c \in Conns : \E line \in Lines : write_line(c, line)
    \/ \E c \in Conns : client_close(c)
    \/ poll_messages
    \/ accept
    \/ read_message

(* the overlay's thread runs whenever it can take a step; clients are free
   to do nothing *)
IpcFairness == WF_vars(poll_messages \/ accept \/ read_message)

\* ---- claims about connections ----

(* the messages of connection c that poll_messages has collected or returned,
   in order *)
Yielded(c) ==
    LET of_c(r) == r.conn = c
        all == SelectSeq(handled \o messages, of_c)
    IN  [k \in 1 .. Len(all) |-> all[k].msg]

(* the messages the client sent on connection c, in order *)
SentMessagesOn(c) == SelectSeq(conns[c].sent, from_str_ok)

(* C5: message ordering within a connection. When the overlay is done with a
   connection on which the client sent several newline-delimited messages,
   it has yielded every one of them, in the order they were sent. *)
C5_EveryMessageInOrder ==
    \A c \in Conns :
       conns[c].state = "dropped" => Yielded(c) = SentMessagesOn(c)

(* C25: parse errors close the connection. A line that does not parse yields
   no message and ends the processing of its connection: a connection that
   has yielded a message has yielded its first line, no line that failed to
   parse came before it. *)
C25_ParseErrorEndsConnection ==
    \A c \in Conns :
       /\ \A k \in DOMAIN Yielded(c) : from_str_ok(Yielded(c)[k])
       /\ Yielded(c) # <<>> => from_str_ok(conns[c].sent[1])

(* C32: the render loop is never stalled by an IPC client. Whatever the
   clients do, a call of poll_messages returns, so the tick goes on to its
   later steps. *)
C32_PollMessagesReturns == (poll_pc # "idle") ~> (poll_pc = "idle")

(***************************************************************************)
(*                          CONTROLLER TABLE                               *)
(***************************************************************************)

MaxPads == 2             \* gamepad ids gilrs hands out

MAX_PLAYERS == 4

(* Option::None for a player number and for a controller id *)
NoPlayer == 0

NoController == -1

PadIds == 0 .. MaxPads - 1

(* gamepad.uuid(): gamepads of one model have the same uuid *)
Uuids == {"model_a", "model_b"}

Unplugged == "unplugged"

Players == 1 .. MAX_PLAYERS

(* ControllerState::new, with no gamepad connected *)
ControllersInit ==
    /\ gilrs = [id \in PadIds |-> Unplugged]
    /\ controllers = <<>>
    /\ player_assignments = [p \in Players |-> NoController]

(* a gamepad is plugged in and gilrs gives it a free id *)
gamepad_connected(id, uuid) ==
    /\ gilrs[id] = Unplugged
    /\ gilrs' = [gilrs EXCEPT ![id] = uuid]
    /\ UNCHANGED <<controllers, player_assignments>>
    /\ UNCHANGED notCtrlVars

(* a gamepad is unplugged *)
gamepad_disconnected(id) ==
    /\ gilrs[id] # Unplugged
    /\ gilrs' = [gilrs EXCEPT ![id] = Unplugged]
    /\ UNCHANGED <<controllers, player_assignments>>
    /\ UNCHANGED notCtrlVars

(* gilrs.gamepads(): the connected gamepads, by id *)
RECURSIVE gamepads(_)
gamepads(id) ==
    IF id >= MaxPads THEN <<>>
    ELSE IF gilrs[id] # Unplugged
            THEN <<[id |-> id, uuid |-> gilrs[id]]>> \o gamepads(id + 1)
            ELSE gamepads(id + 1)

(* self.controllers.iter().find(|c| c.uuid == uuid), then
   and_then(|c| c.assigned_player) *)
assigned_player_of_uuid(uuid) ==
    LET hits == {k \in DOMAIN controllers : controllers[k].uuid = uuid}
    IN  IF hits = {} THEN NoPlayer
        ELSE controllers[CHOOSE k \in hits : \A j \in hits : k <= j]
                .assigned_player

(* ControllerState::update_from_gilrs *)
update_from_gilrs ==
    LET pads == gamepads(0)
        new_controllers ==
            [k \in DOMAIN pads |->
                [id |-> pads[k].id, uuid |-> pads[k].uuid,
                 assigned_player |-> assigned_player_of_uuid(pads[k].uuid)]]
    IN  /\ controllers' = new_controllers
        /\ player_assignments' =
              [p \in Players |->
                  IF /\ player_assignments[p] # NoController
                     /\ ~\E k \in DOMAIN new_controllers :
                            new_controllers[k].id = player_assignments[p]
                     THEN NoController
                     ELSE player_assignments[p]]
        /\ UNCHANGED gilrs
        /\ UNCHANGED notCtrlVars

(* position(|c| c.id == controller_id): the first index, or 0 *)
position(controller_id) ==
    LET hits == {k \in DOMAIN controllers : controllers[k].id = controller_id}
    IN  IF hits = {} THEN 0 ELSE CHOOSE k \in hits : \A j \in hits : k <= j

(* ControllerState::assign_controller_to_player; an Err leaves the state *)
assign_controller_to_player(controller_id, player) ==
    /\ IF player = 0 \/ player > MAX_PLAYERS \/ position(controller_id) = 0
          THEN UNCHANGED <<controllers, player_assignments>>
          ELSE LET controller_idx == position(controller_id)
                   old_player == controllers[controller_idx].assigned_player
                   cleared == IF old_player # NoPlayer
                                 THEN [player_assignments EXCEPT
                                          ![old_player] = NoController]
                                 ELSE player_assignments
                   old_controller_id == cleared[player]
                   old_idx == position(old_controller_id)
                   freed == IF old_controller_id # NoController /\ old_idx # 0
                               THEN [controllers EXCEPT
                                       ![old_idx].assigned_player = NoPlayer]
                               ELSE controllers
               IN  /\ controllers' =
                         [freed EXCEPT ![controller_idx].assigned_player = player]
                   /\ player_assignments' =
                         [cleared EXCEPT ![player] = controller_id]
    /\ UNCHANGED gilrs
    /\ UNCHANGED notCtrlVars

(* ControllerState::unassign_controller *)
unassign_controller(controller_id) ==
    /\ IF position(controller_id) = 0
          THEN UNCHANGED <<controllers, player_assignments>>
          ELSE LET idx == position(controller_id)
                   player == controllers[idx].assigned_player
               IN  /\ player_assignments' =
                         IF player # NoPlayer
                            THEN [player_assignments EXCEPT
                                     ![player] = NoController]
                            ELSE player_assignments
                   /\ controllers' =
                         [controllers EXCEPT ![idx].assigned_player = NoPlayer]
    /\ UNCHANGED gilrs
    /\ UNCHANGED notCtrlVars

(* ControllerState::auto_assign_all *)
auto_assign_all ==
    /\ controllers' =
          [k \in DOMAIN controllers |->
              [controllers[k] EXCEPT
                 !.assigned_player = IF k - 1 < MAX_PLAYERS THEN k
                                                            ELSE NoPlayer]]
    /\ player_assignments' =
          [p \in Players |->
              IF p <= Len(controllers) THEN controllers[p].id
                                       ELSE NoController]
    /\ UNCHANGED gilrs
    /\ UNCHANGED notCtrlVars

ControllersNext ==
    \/ \E id \in PadIds : \E uuid \in Uuids : gamepad_connected(id, uuid)
    \/ \E id \in PadIds : gamepad_disconnected(id)
    \/ update_from_gilrs
    \/ \E id \in PadIds : \E player \in 0 .. MAX_PLAYERS + 1 :
          assign_controller_to_player(id, player)
    \/ \E id \in PadIds : unassign_controller(id)
    \/ auto_assign_all

\* ---- claims about the controller table ----

(* C6: player-assignment bijection. For every controller in the table and
   every player p, the controller's assigned_player is Some(p) exactly when
   player_assignments[p-1] is Some(its id), and no player number is held by
   more than one controller. *)
C6_AssignmentBijection ==
    /\ \A k \in DOMAIN controllers : \A p \in Players :
          (controllers[k].assigned_player = p)
             <=> (player_assignments[p] = controllers[k].id)
    /\ \A k, j \in DOMAIN controllers :
          (k # j /\ controllers[k].assigned_player # NoPlayer)
             => controllers[k].assigned_player # controllers[j].assigned_player

(***************************************************************************)
(*                    THE OVERLAY FRAME AND ITS TOASTS                     *)
(***************************************************************************)

MaxQueue == 3            \* toasts queued at once in a run of the frame loop
MaxAge == 2              \* ages are counted up to the longest duration, in ms

(* now.duration_since(toast.created_at), in ms: the age of a toast.  An
   Instant is only ever compared through such differences. *)
duration_since(toast) == toast.age

(* time passes: every queued toast is d ms older *)
older(toasts, d) ==
    [k \in DOMAIN toasts |->
        [toasts[k] EXCEPT !.age = Min(toasts[k].age + d, MaxAge)]]

(* ToastManager::update: retain the toasts younger than their duration *)
ToastManager_update(toasts) ==
    LET keep(toast) == duration_since(toast) < toast.duration
    IN  SelectSeq(toasts, keep)

(* ToastManager::get_visible_toasts: the first max_visible toasts queued *)
get_visible_toasts(toasts) == SubSeq(toasts, 1, Min(Len(toasts), max_visible))

(* OverlayState::should_render *)
should_render(st) == st.visible \/ st.toasts # <<>>

FrameInit ==
    /\ frame_pc = "poll_messages"
    /\ rendered = <<>>

(* the toasts clients ask for in a run of the frame loop *)
ToastMessages ==
    {m \in OverlayMessage : m.type = "show_toast" /\ m.duration_ms <= MaxAge}

(* the clock advances by one millisecond, anywhere in the frame *)
time_passes ==
    /\ \E k \in DOMAIN overlay_state.toasts :
          overlay_state.toasts[k].age < MaxAge
    /\ overlay_state' =
          [overlay_state EXCEPT !.toasts = older(overlay_state.toasts, 1)]
    /\ UNCHANGED frameVars
    /\ UNCHANGED notFrameVars

(* main: for message in ipc_server.poll_messages() { handle_message } with
   the show_toast messages that have arrived *)
frame_poll_messages(arrived) ==
    /\ frame_pc = "poll_messages"
    /\ Len(overlay_state.toasts) + Len(arrived) <= MaxQueue
    /\ overlay_state' =
          IF arrived = <<>> THEN overlay_state
          ELSE handle_message(overlay_state, arrived[1])
    /\ frame_pc' = "update"
    /\ rendered' = <<>>
    /\ UNCHANGED notFrameVars

(* main: overlay_state.update() *)
frame_update ==
    /\ frame_pc = "update"
    /\ overlay_state' =
          [overlay_state EXCEPT !.toasts = ToastManager_update(@)]
    /\ frame_pc' = "render"
    /\ UNCHANGED rendered
    /\ UNCHANGED notFrameVars

(* main: rendering::render when should_render(); render_toasts draws
   get_visible_toasts() *)
frame_render ==
    /\ frame_pc = "render"
    /\ rendered' = IF should_render(overlay_state)
                      THEN get_visible_toasts(overlay_state.toasts)
                      ELSE <<>>
    /\ frame_pc' = "poll_messages"
    /\ UNCHANGED overlay_state
    /\ UNCHANGED notFrameVars

FrameNext ==
    \/ time_passes
    \/ frame_poll_messages(<<>>)
    \/ \E message \in ToastMessages : frame_poll_messages(<<message>>)
    \/ frame_update
    \/ frame_render

\* ---- claims about toasts ----

(* C10: toast eviction. No toast that get_visible_toasts returns has reached
   its duration: one created at time c with duration D is not returned at a
   time >= c + D. *)
C10_NoExpiredToastReturned ==
    \A k \in DOMAIN rendered :
       duration_since(rendered[k]) < rendered[k].duration

\* ---- the performance HUD in the frame loop ----

(* PerformanceStats::toggle_visibility *)
performance_toggle_visibility(visible) == ~visible

(* main, the end of a frame: what is drawn.  With nothing to render and
   the HUD off the frame is skipped; rendering::render runs only when
   should_render(), and draws the HUD when its flag is set *)
frame_draws(st, hud_visible) ==
    IF ~should_render(st) /\ ~hud_visible
       THEN [toasts |-> <<>>, hud |-> FALSE]
       ELSE IF should_render(st)
               THEN [toasts |-> get_visible_toasts(st.toasts),
                     hud |-> hud_visible]
               ELSE [toasts |-> <<>>, hud |-> FALSE]

HudInit ==
    /\ perf_visible = FALSE
    /\ hud_drawn = "no_frame"

(* main, the start of a frame: the overlay hotkey and the F3 hotkey.  The
   controller inputs of a visible overlay are not followed here. *)
frame_hotkeys(hotkey, f3) ==
    /\ frame_pc = "hotkeys"
    /\ overlay_state' = IF hotkey THEN toggle_visibility(overlay_state)
                                  ELSE overlay_state
    /\ perf_visible' = IF f3 THEN performance_toggle_visibility(perf_visible)
                             ELSE perf_visible
    /\ frame_pc' = "poll_messages"
    /\ UNCHANGED <<rendered, hud_drawn>>
    /\ UNCHANGED notHudVars

(* main, the end of a frame *)
frame_render_hud ==
    LET drawn == frame_draws(overlay_state, perf_visible)
    IN  /\ frame_pc = "render"
        /\ rendered' = drawn.toasts
        /\ hud_drawn' = IF drawn.hud THEN "drawn" ELSE "not_drawn"
        /\ frame_pc' = "hotkeys"
        /\ UNCHANGED <<overlay_state, perf_visible>>
        /\ UNCHANGED notHudVars

HudNext ==
    \/ \E hotkey, f3 \in BOOLEAN : frame_hotkeys(hotkey, f3)
    \/ frame_poll_messages(<<>>)
    \/ \E message \in ToastMessages : frame_poll_messages(<<message>>)
    \/ frame_update
    \/ time_passes
    \/ frame_render_hud

(* C24: at the end of every frame in which the HUD's visibility flag is
   set the HUD has been drawn, whatever the overlay's visibility and the
   toast queue. *)
C24_HudDrawnWhenVisible ==
    (frame_pc = "hotkeys" /\ hud_drawn # "no_frame" /\ perf_visible) =>
        hud_drawn = "drawn"

(***************************************************************************)
(*                 PLAYTIME TRACKER (src/overlay/src/playtime.rs)          *)
(***************************************************************************)

MaxSessions == 3         \* start_session calls made in one run
MaxPlayTime == 5         \* how far the clock runs, in half seconds

Carts == {"game1", "game2"}

NoSession == [cart_id |-> None, start_time |-> 0]

NoEntry == [cart_id |-> None, total_seconds |-> 0, last_played |-> None,
            play_count |-> 0]

(* the unix time at which the run begins, in seconds *)
UnixStart == 100

(* Duration::as_secs of a duration in half seconds *)
as_secs(d) == d \div 2

(* current_timestamp *)
current_timestamp(now) == UnixStart + as_secs(now)

(* add_playtime with entry.total_seconds = seconds in place of += *)
add_playtime_overwrite(db, cart_id, seconds, now) ==
    [db EXCEPT ![cart_id] =
        [cart_id |-> cart_id,
         total_seconds |-> seconds,
         last_played |-> current_timestamp(now),
         play_count |-> db[cart_id].play_count + 1]]

(* PlaytimeTracker::add_playtime: entry(..).or_insert_with(zeros), then the
   three updates *)
add_playtime(db, cart_id, seconds, now) ==
    LET entry == IF db[cart_id] = NoEntry
                    THEN [cart_id |-> cart_id, total_seconds |-> 0,
                          last_played |-> None, play_count |-> 0]
                    ELSE db[cart_id]
    IN  [db EXCEPT ![cart_id] =
            [cart_id |-> cart_id,
             total_seconds |-> entry.total_seconds + seconds,
             last_played |-> current_timestamp(now),
             play_count |-> entry.play_count + 1]]

(* PlaytimeTracker::end_session as a function of the tracker: the database
   after it (the session is taken whatever save_database returns) *)
end_session_db(session, db, now) ==
    IF session = NoSession THEN db
    ELSE add_playtime(db, session.cart_id,
                      as_secs(now - session.start_time), now)

(* the databases load_database can return: none on disk, or one written by
   an earlier run *)
SavedDatabases ==
    {[c \in Carts |-> NoEntry],
     [c \in Carts |->
        IF c = "game1"
           THEN [cart_id |-> c, total_seconds |-> 7, last_played |-> 90,
                 play_count |-> 2]
           ELSE NoEntry]}

(* PlaytimeTracker::new *)
PlaytimeNew(db) ==
    /\ play_clock = 0
    /\ current_session = NoSession
    /\ database = db
    /\ db_file = db
    /\ loaded = db
    /\ started = [c \in Carts |-> 0]

PlaytimeInit == \E db \in SavedDatabases : PlaytimeNew(db)

(* a tracker that is not part of the run *)
PlaytimeIdle == PlaytimeNew([c \in Carts |-> NoEntry])

(* half a second passes *)
play_time_passes ==
    /\ play_clock < MaxPlayTime
    /\ play_clock' = play_clock + 1
    /\ UNCHANGED <<current_session, database, db_file, loaded, started>>
    /\ UNCHANGED notPlayVars

(* start_session that replaces the session without ending it *)
playtime_start_session_replace(cart_id, save_ok) ==
    /\ started[cart_id] < MaxSessions
    /\ (current_session = NoSession) => save_ok
    /\ current_session' = [cart_id |-> cart_id, start_time |-> play_clock]
    /\ started' = [started EXCEPT ![cart_id] = @ + 1]
    /\ UNCHANGED <<play_clock, loaded, database, db_file>>

(* PlaytimeTracker::start_session: end_session, then the new session *)
playtime_start_session(cart_id, save_ok) ==
    /\ started[cart_id] < MaxSessions
    /\ (current_session = NoSession) => save_ok
    /\ database' = end_session_db(current_session, database, play_clock)
    /\ db_file' = IF current_session # NoSession /\ save_ok
                     THEN database' ELSE db_file
    /\ current_session' = [cart_id |-> cart_id, start_time |-> play_clock]
    /\ started' = [started EXCEPT ![cart_id] = @ + 1]
    /\ UNCHANGED <<play_clock, loaded>>

(* a caller of start_session that touches nothing else *)
start_session(cart_id, save_ok) ==
    /\ playtime_start_session(cart_id, save_ok)
    /\ UNCHANGED notPlayVars

(* PlaytimeTracker::end_session *)
playtime_end_session(save_ok) ==
    /\ (current_session = NoSession) => save_ok
    /\ database' = end_session_db(current_session, database, play_clock)
    /\ db_file' = IF current_session # NoSession /\ save_ok
                     THEN database' ELSE db_file
    /\ current_session' = NoSession
    /\ UNCHANGED <<play_clock, loaded, started>>

(* end_session called by Drop, or by a caller that touches nothing else *)
end_session(save_ok) ==
    /\ playtime_end_session(save_ok)
    /\ UNCHANGED notPlayVars

PlaytimeNext ==
    \/ play_time_passes
    \/ \E cart_id \in Carts, save_ok \in BOOLEAN :
          start_session(cart_id, save_ok)
    \/ \E save_ok \in BOOLEAN : end_session(save_ok)

\* ---- claims about the playtime tracker ----

(* the session of current_session ends in this step *)
SessionEnds ==
    /\ current_session # NoSession
    /\ current_session' = NoSession \/ started' # started

(* C12: playtime conservation. The step that ends the session started by
   start_session(c) adds exactly 1 to play_count[c] and the whole seconds
   elapsed since that start_session to total_seconds[c] (at least
   stop - start - 1) and leaves the record of every other cart as it was;
   no other step changes a record; so after k sessions of c, play_count[c]
   is k more than it was when the database was loaded. *)
C12_PlaytimeConservation ==
    [][/\ SessionEnds <=> database' # database
       /\ SessionEnds =>
             LET c == current_session.cart_id
                 elapsed == play_clock - current_session.start_time
                 seconds == database'[c].total_seconds
                               - database[c].total_seconds
             IN  /\ database'[c].play_count = database[c].play_count + 1
                 /\ 2 * seconds <= elapsed
                 /\ 2 * seconds > elapsed - 2
                 /\ \A o \in Carts \ {c} : database'[o] = database[o]
       /\ \A c \in Carts :
             database'[c].play_count =
                loaded'[c].play_count + started'[c]
                   - (IF current_session'.cart_id = c THEN 1 ELSE 0)
      ]_vars

(* C12 witness: two sessions of game1 have ended, one of them at least a
   second long, on a database that already had a record for game1, and
   game2 has no record *)
C12_Witness ==
    /\ loaded["game1"].play_count = 2
    /\ started["game1"] = 2
    /\ current_session = NoSession
    /\ database["game1"].play_count = 4
    /\ database["game1"].total_seconds = 8
    /\ database["game2"] = NoEntry

(***************************************************************************)
(*        ACHIEVEMENT LIST AND FILTER (src/overlay/src/state.rs)           *)
(***************************************************************************)

MaxAchievements == 2     \* achievements in a list

(* strings are sequences of characters *)
Titles == {<<"A", "b">>, <<"b">>}

Descriptions == {<<>>, <<"a">>}

Queries == {<<>>, <<"a">>, <<"A", "B">>}

AchievementFilter == {"All", "Earned", "Unearned"}

(* char::to_lowercase on the characters used *)
lower(ch) == IF ch = "A" THEN "a" ELSE IF ch = "B" THEN "b" ELSE ch

(* str::to_lowercase *)
to_lowercase(str) == [k \in DOMAIN str |-> lower(str[k])]

(* str::contains *)
contains(str, pat) ==
    \E k \in 0 .. Len(str) - Len(pat) : SubSeq(str, k + 1, k + Len(pat)) = pat

(* the achievement lists an RaAchievementList message can carry; ids are
   1, 2, ... in list order *)
AchievementLists ==
    UNION {[1 .. n -> [title : Titles, description : Descriptions,
                       earned : BOOLEAN]] : n \in 0 .. MaxAchievements}

(* apply_filter: matches_filter *)
matches_filter(filter, achievement) ==
    CASE filter = "All" -> TRUE
      [] filter = "Earned" -> achievement.earned
      [] filter = "Unearned" -> ~achievement.earned

(* apply_filter: matches_search *)
matches_search(search_query, achievement) ==
    IF search_query = <<>> THEN TRUE
    ELSE LET query == to_lowercase(search_query)
         IN  \/ contains(to_lowercase(achievement.title), query)
             \/ contains(to_lowercase(achievement.description), query)

(* apply_filter: the loop over achievements.iter().enumerate(), from index i
   on, pushing onto acc *)
RECURSIVE apply_filter_from(_, _, _, _)
apply_filter_from(fs, list, i, acc) ==
    IF i >= Len(list) THEN acc
    ELSE apply_filter_from(fs, list, i + 1,
            IF /\ matches_filter(fs.filter, list[i + 1])
               /\ matches_search(fs.search_query, list[i + 1])
               THEN Append(acc, i) ELSE acc)

(* AchievementFilterState::new; AchievementTracker::new *)
FilterInit ==
    /\ achievements = <<>>
    /\ filter_state = [filter |-> "All", search_query |-> <<>>,
                       selected_filter |-> 0, scroll_offset |-> 0,
                       filtered_indices |-> <<>>]

(* AchievementFilterState::set_filter *)
set_filter(filter) ==
    /\ filter_state' =
          [filter_state EXCEPT !.filter = filter, !.scroll_offset = 0]
    /\ UNCHANGED achievements
    /\ UNCHANGED notFilterVars

(* AchievementFilterState::update_search *)
update_search(query) ==
    /\ filter_state' =
          [filter_state EXCEPT !.search_query = query, !.scroll_offset = 0]
    /\ UNCHANGED achievements
    /\ UNCHANGED notFilterVars

(* AchievementFilterState::apply_filter(&tracker.achievements) *)
apply_filter ==
    /\ filter_state' =
          [filter_state EXCEPT !.filtered_indices =
              apply_filter_from(filter_state, achievements, 0, <<>>)]
    /\ UNCHANGED achievements
    /\ UNCHANGED notFilterVars

(* AchievementFilterState::clear *)
filter_clear ==
    /\ filter_state' = [filter |-> "All", search_query |-> <<>>,
                        selected_filter |-> 0, scroll_offset |-> 0,
                        filtered_indices |-> <<>>]
    /\ UNCHANGED achievements
    /\ UNCHANGED notFilterVars

(* AchievementTracker::set_achievements *)
set_achievements(list) ==
    /\ achievements' = list
    /\ UNCHANGED filter_state
    /\ UNCHANGED notFilterVars

(* AchievementTracker::unlock_achievement: the achievement with that id, if
   it is in the list *)
unlock_achievement(achievement_id) ==
    /\ achievements' =
          IF achievement_id \in DOMAIN achievements
             THEN [achievements EXCEPT ![achievement_id].earned = TRUE]
             ELSE achievements
    /\ UNCHANGED filter_state
    /\ UNCHANGED notFilterVars

FilterNext ==
    \/ \E filter \in AchievementFilter : set_filter(filter)
    \/ \E query \in Queries : update_search(query)
    \/ apply_filter
    \/ filter_clear
    \/ \E list \in AchievementLists : set_achievements(list)
    \/ \E achievement_id \in 1 .. MaxAchievements + 1 :
          unlock_achievement(achievement_id)

\* ---- claims about the achievement filter ----

(* the indices of the achievements that match the current filter and the
   current search query; indices count from 0 *)
MatchingIndices ==
    {i \in 0 .. Len(achievements) - 1 :
        /\ matches_filter(filter_state.filter, achievements[i + 1])
        /\ matches_search(filter_state.search_query, achievements[i + 1])}

(* C13: achievement filter correctness. After any sequence of set_filter,
   update_search, apply_filter and changes of the achievement list,
   filtered_indices is exactly the ascending list of the indices whose
   achievement matches the current filter and the current case-insensitive
   search query on title or description. *)
C13_FilteredIndicesExact ==
    LET indices == filter_state.filtered_indices
    IN  /\ Range(indices) = MatchingIndices
        /\ Len(indices) = Cardinality(MatchingIndices)
        /\ \A j, k \in DOMAIN indices : j < k => indices[j] < indices[k]

(***************************************************************************)
(*     ACHIEVEMENT TRACKER AND THE GAME'S FEED (src/overlay/src/state.rs)  *)
(***************************************************************************)

(* Option<u32> *)
Some(v) == [is_some |-> TRUE, v |-> v]

NoGameId == [is_some |-> FALSE, v |-> 0]

(* the achievement lists of the feed: ids are 1, 2, ... in list order *)
TrackerLists ==
    UNION {[1 .. n -> [earned : BOOLEAN]] : n \in 0 .. MaxAchievements}

AchievementInfo(list) ==
    [k \in DOMAIN list |-> [id |-> k, earned |-> list[k].earned]]

(* the fields that serde requires of each variant handle_message matches *)
FeedVariants ==
    [game_started |-> {"type", "cart_id"},
     ra_game_info |-> {"type", "game_id"},
     ra_achievement_list |-> {"type", "achievements"},
     ra_progress_update |-> {"type", "earned", "total"},
     ra_unlock |-> {"type", "achievement_id"},
     game_stopped |-> {"type"}]

(* the messages of the feed that clients send in a run *)
FeedMessages ==
    [type : {"game_started"}, cart_id : {"game1"}]
    \cup [type : {"ra_game_info"}, game_id : {1}]
    \cup {[type |-> "ra_achievement_list", achievements |-> AchievementInfo(l)] :
             l \in TrackerLists}
    \cup [type : {"ra_progress_update"}, earned : {1}, total : {2}]
    \cup [type : {"ra_unlock"}, achievement_id : 1 .. MaxAchievements + 1]
    \cup [type : {"game_stopped"}]

(* lines that are no OverlayMessage: an unknown type tag, a variant without
   its field, and text that is no JSON object *)
MalformedLines ==
    {[type |-> "frobnicate"], [type |-> "ra_unlock"], [raw |-> "{"]}

FeedLines == FeedMessages \cup MalformedLines

(* serde_json::from_str::<OverlayMessage>(&line): the internally tagged
   enum needs a known tag and the fields of that variant *)
from_str(line) ==
    IF /\ "type" \in DOMAIN line
       /\ line.type \in DOMAIN FeedVariants
       /\ FeedVariants[line.type] \subseteq DOMAIN line
       THEN [ok |-> TRUE, msg |-> line] ELSE [ok |-> FALSE]

(* AchievementTracker::new *)
AchievementTracker_new ==
    [game_id |-> NoGameId, achievements |-> <<>>,
     progress |-> [total |-> 0, earned |-> 0]]

(* AchievementTracker::set_game_info *)
tracker_set_game_info(tr, game_id) == [tr EXCEPT !.game_id = Some(game_id)]

(* set_achievements that counts every achievement as earned *)
tracker_set_achievements_all(tr, list) ==
    [tr EXCEPT !.achievements = list,
               !.progress = [total |-> Len(list), earned |-> Len(list)]]

(* AchievementTracker::set_achievements *)
tracker_set_achievements(tr, list) ==
    LET earned == Cardinality({k \in DOMAIN list : list[k].earned})
        total == Len(list)
    IN  [tr EXCEPT !.achievements = list,
                   !.progress = [total |-> total, earned |-> earned]]

(* unlock_achievement without the test of achievement.earned *)
tracker_unlock_achievement_again(tr, achievement_id) ==
    LET found == {k \in DOMAIN tr.achievements :
                     tr.achievements[k].id = achievement_id}
    IN  IF found = {} THEN tr
        ELSE LET k == CHOOSE k \in found : \A j \in found : k <= j
             IN  [tr EXCEPT !.achievements[k].earned = TRUE,
                            !.progress.earned = @ + 1]

(* AchievementTracker::unlock_achievement: iter_mut().find is the first
   achievement with that id *)
tracker_unlock_achievement(tr, achievement_id) ==
    LET found == {k \in DOMAIN tr.achievements :
                     tr.achievements[k].id = achievement_id}
    IN  IF found = {} THEN tr
        ELSE LET k == CHOOSE k \in found : \A j \in found : k <= j
             IN  IF ~tr.achievements[k].earned
                    THEN [tr EXCEPT !.achievements[k].earned = TRUE,
                                    !.progress.earned = @ + 1]
                    ELSE tr

(* AchievementTracker::update_progress *)
tracker_update_progress(tr, earned, total) ==
    [tr EXCEPT !.progress = [total |-> total, earned |-> earned]]

(* AchievementTracker::clear *)
tracker_clear(tr) ==
    [game_id |-> NoGameId, achievements |-> <<>>,
     progress |-> [total |-> 0, earned |-> 0]]

(* AchievementTracker::has_game *)
has_game(tr) == tr.game_id.is_some

(* where the feed is: whether game_stopped was handled and no game_started
   since, how far the sequence game_started, ra_achievement_list,
   game_stopped, ra_achievement_list has come and with which first list, and
   what the last line was: dropped, an unlock of an achievement that was not
   earned, of one that was, of an id that is not in the list, or another
   message *)
NoLifecycle ==
    [after_stop |-> FALSE, stage |-> 0, first_list |-> <<>>, last |-> None]

lifecycle_after(lc, tr, line) ==
    IF ~from_str(line).ok THEN [lc EXCEPT !.last = "dropped"]
    ELSE
    LET type == line.type
        list == type = "ra_achievement_list"
        ids == {a.id : a \in Range(tr.achievements)}
        earned_ids == {a.id : a \in {b \in Range(tr.achievements) : b.earned}}
    IN  [after_stop |-> IF type = "game_stopped" THEN TRUE
                        ELSE IF type = "game_started" THEN FALSE
                        ELSE lc.after_stop,
         stage |-> CASE type = "game_started" -> 1
                     [] lc.stage \in {1, 2} /\ list -> 2
                     [] lc.stage = 2 /\ type = "game_stopped" -> 3
                     [] lc.stage = 3 /\ list -> 4
                     [] lc.stage = 4 -> 0
                     [] OTHER -> lc.stage,
         first_list |-> IF type = "game_started" \/ lc.stage = 4 THEN <<>>
                        ELSE IF lc.stage \in {1, 2} /\ list
                                THEN line.achievements
                        ELSE lc.first_list,
         last |-> IF type # "ra_unlock" THEN "other"
                  ELSE IF line.achievement_id \notin ids THEN "unlock_unknown"
                  ELSE IF line.achievement_id \in earned_ids
                          THEN "unlock_again"
                  ELSE "unlock_first"]

TrackerInit ==
    /\ tracker = AchievementTracker_new
    /\ lifecycle = NoLifecycle

(* OverlayState::handle_message: the arms of the feed *)
handle_feed_message(message, save_ok) ==
    \/ /\ message.type = "game_started"
       /\ playtime_start_session(message.cart_id, save_ok)
       /\ UNCHANGED <<overlay_state, tracker>>
    \/ /\ message.type = "ra_game_info"
       /\ tracker' = tracker_set_game_info(tracker, message.game_id)
       /\ UNCHANGED <<overlay_state, playVars>>
    \/ /\ message.type = "ra_achievement_list"
       /\ tracker' = tracker_set_achievements(tracker, message.achievements)
       /\ UNCHANGED <<overlay_state, playVars>>
    \/ /\ message.type = "ra_progress_update"
       /\ tracker' =
             tracker_update_progress(tracker, message.earned, message.total)
       /\ UNCHANGED <<overlay_state, playVars>>
    \/ /\ message.type = "ra_unlock"
       /\ Len(overlay_state.toasts) < MaxToasts
       /\ tracker' = tracker_unlock_achievement(tracker, message.achievement_id)
       /\ overlay_state' = add_toast(overlay_state, "Success", 5000)
       /\ UNCHANGED playVars
    \/ /\ message.type = "game_stopped"
       /\ playtime_end_session(save_ok)
       /\ tracker' = tracker_clear(tracker)
       /\ UNCHANGED overlay_state

(* a line that does not parse clears the tracker *)
receive_line_clear(line, save_ok) ==
    /\ lifecycle' = lifecycle_after(lifecycle, tracker, line)
    /\ IF ~from_str(line).ok
          THEN /\ tracker' = tracker_clear(tracker)
               /\ UNCHANGED <<overlay_state, playVars>>
          ELSE handle_feed_message(from_str(line).msg, save_ok)
    /\ UNCHANGED notFeedVars

(* read_message on a connection that carries this line, then main's
   handle_message on what it returned: a line that does not parse is logged
   and nothing is handled *)
receive_line(line, save_ok) ==
    /\ lifecycle' = lifecycle_after(lifecycle, tracker, line)
    /\ IF ~from_str(line).ok
          THEN UNCHANGED <<overlay_state, playVars, tracker>>
          ELSE handle_feed_message(from_str(line).msg, save_ok)
    /\ UNCHANGED notFeedVars

(* main: overlay_state.update() once the queued toasts have run out *)
feed_update ==
    /\ overlay_state.toasts # <<>>
    /\ overlay_state' = [overlay_state EXCEPT !.toasts = <<>>]
    /\ UNCHANGED <<playVars, trackerVars>>
    /\ UNCHANGED notFeedVars

(* save_database can fail where the message ends a session *)
SaveOutcomes(line) ==
    IF from_str(line).ok /\ line.type \in {"game_started", "game_stopped"}
       THEN BOOLEAN ELSE {TRUE}

FeedNext ==
    \/ \E line \in FeedLines :
          \E save_ok \in SaveOutcomes(line) : receive_line(line, save_ok)
    \/ feed_update

(* the game_started and game_stopped messages of two carts *)
SessionLines ==
    [type : {"game_started"}, cart_id : Carts] \cup [type : {"game_stopped"}]

(* the feed of the playtime tracker, and time *)
SessionsNext ==
    \/ \E line \in SessionLines, save_ok \in BOOLEAN :
          receive_line(line, save_ok)
    \/ play_time_passes

\* ---- claims about the feed ----

(* C38: there is one current_session; a game_started that finds a session
   open ends it first, adding its whole seconds and one play to the record
   of the old cart, and then opens the new session; a game_stopped that
   finds no session changes no record; so play_count of a cart is what was
   loaded plus the number of its sessions that were opened and have been
   closed. *)
C38_PlayCountAccounting ==
    [][/\ (current_session # NoSession /\ started' # started) =>
             LET old == current_session.cart_id
                 elapsed == play_clock - current_session.start_time
             IN  /\ database'[old].play_count = database[old].play_count + 1
                 /\ database'[old].total_seconds =
                       database[old].total_seconds + as_secs(elapsed)
                 /\ \A o \in Carts \ {old} : database'[o] = database[o]
                 /\ current_session' # NoSession
                 /\ current_session'.start_time = play_clock
                 /\ started'[current_session'.cart_id] =
                       started[current_session'.cart_id] + 1
       /\ (current_session = NoSession /\ current_session' = NoSession) =>
             database' = database /\ db_file' = db_file
       /\ \A c \in Carts :
             database'[c].play_count =
                loaded'[c].play_count + started'[c]
                   - (IF current_session'.cart_id = c THEN 1 ELSE 0)
      ]_vars

(* a session of game1 at least a second long was closed by the game_started
   of game2, whose session is open *)
C38_Witness ==
    /\ started = [c \in Carts |-> 1]
    /\ current_session.cart_id = "game2"
    /\ database["game1"].play_count = loaded["game1"].play_count + 1
    /\ database["game1"].total_seconds > loaded["game1"].total_seconds
    /\ database["game2"] = loaded["game2"]


(* C26: a line whose type tag is not a known variant, or that is malformed
   otherwise, changes no overlay state: the step that drops it leaves the
   overlay state (visibility, screen, selections, toasts), the achievement
   tracker and the playtime tracker with its session as they were. The
   overlay keeps processing: after a dropped line the next message of the
   feed can be handled. *)
C26_MalformedLineDropped ==
    /\ [][lifecycle.last # "dropped" /\ lifecycle'.last = "dropped"
             => /\ overlay_state' = overlay_state
                /\ tracker' = tracker
                /\ playVars' = playVars]_vars
    /\ [](lifecycle.last = "dropped"
             => ENABLED receive_line([type |-> "ra_game_info", game_id |-> 1],
                                     TRUE))

(* a line was dropped while a game with achievements was running and a toast
   was on screen *)
C26_Witness ==
    /\ lifecycle.last = "dropped"
    /\ tracker.achievements # <<>>
    /\ current_session # NoSession
    /\ overlay_state.toasts # <<>>

(* AchievementTracker::has_game is false, the list is empty, progress 0/0 *)
NoGameState(tr) ==
    /\ ~has_game(tr)
    /\ tr.achievements = <<>>
    /\ tr.progress = [total |-> 0, earned |-> 0]

(* C27: out-of-order lifecycle events. While game_stopped has been handled
   and no game_started since, the achievement tracker is in the no-game
   state, whatever messages of the feed were handled after game_stopped. *)
C27_NoGameAfterStop == lifecycle.after_stop => NoGameState(tracker)

(* C28: scenario S5. The step that handles ra_achievement_list(L2) after
   game_started, ra_achievement_list(L1) and game_stopped leaves the tracker
   with exactly the achievements of L2, progress.total = |L2| and
   progress.earned = the number of earned entries of L2. *)
C28_LastListHeld ==
    [][lifecycle.stage = 3
          => \A list \in TrackerLists :
                LET l2 == AchievementInfo(list)
                    line == [type |-> "ra_achievement_list",
                             achievements |-> l2]
                IN  receive_line(line, TRUE)
                       => /\ tracker'.achievements = l2
                          /\ tracker'.progress.total = Len(l2)
                          /\ tracker'.progress.earned =
                                Cardinality({k \in DOMAIN l2 :
                                                l2[k].earned})]_vars

(* the scenario has run with a first list that is not the second one *)
C28_Witness ==
    /\ lifecycle.stage = 4
    /\ lifecycle.first_list # <<>>
    /\ tracker.achievements # <<>>
    /\ tracker.achievements # lifecycle.first_list
    /\ \E k \in DOMAIN tracker.achievements : ~tracker.achievements[k].earned

(* C29: unlock_achievement(id) marks the achievement earned and adds one to
   progress.earned if the achievement is in the list and was not earned; if
   it was earned already, or no achievement of the list has this id, the
   tracker stays as it is. So does a tracker to which it is applied a second
   time. This holds of every tracker the feed leads to. *)
C29_UnlockOnce ==
    \A achievement_id \in 1 .. MaxAchievements + 1 :
       LET after == tracker_unlock_achievement(tracker, achievement_id)
           hit == {k \in DOMAIN tracker.achievements :
                      /\ tracker.achievements[k].id = achievement_id
                      /\ ~tracker.achievements[k].earned}
       IN  /\ tracker_unlock_achievement(after, achievement_id) = after
           /\ IF hit = {} THEN after = tracker
              ELSE /\ after.progress.earned = tracker.progress.earned + 1
                   /\ after.progress.total = tracker.progress.total
                   /\ after.game_id = tracker.game_id
                   /\ after.achievements =
                         [k \in DOMAIN tracker.achievements |->
                             IF k \in hit
                                THEN [tracker.achievements[k]
                                         EXCEPT !.earned = TRUE]
                                ELSE tracker.achievements[k]]

(* an achievement that was earned already has been unlocked again, and one
   of the list is still not earned *)
C29_Witness ==
    /\ lifecycle.last = "unlock_again"
    /\ tracker.progress.earned = 1
    /\ \E k \in DOMAIN tracker.achievements : ~tracker.achievements[k].earned

\* ---- the toast manager alone: any sequence of add_toast and update ----

MaxAdded == 4            \* add_toast calls made in one run

ToastInit == toast_count = 0

(* ToastManager::add_toast with the next message, "Toast <n>" as in
   test_toast_manager_max_visible; the toast's content (message, icon,
   style) is carried in the style field *)
tm_add_toast(duration_ms) ==
    /\ toast_count < MaxAdded
    /\ toast_count' = toast_count + 1
    /\ overlay_state' = add_toast(overlay_state, toast_count + 1, duration_ms)
    /\ UNCHANGED notToastVars

(* ToastManager::update *)
tm_update ==
    /\ overlay_state' =
          [overlay_state EXCEPT !.toasts = ToastManager_update(@)]
    /\ UNCHANGED toast_count
    /\ UNCHANGED notToastVars

(* the clock advances by one millisecond between two calls *)
tm_time_passes ==
    /\ \E k \in DOMAIN overlay_state.toasts :
          overlay_state.toasts[k].age < MaxAge
    /\ overlay_state' =
          [overlay_state EXCEPT !.toasts = older(overlay_state.toasts, 1)]
    /\ UNCHANGED toast_count
    /\ UNCHANGED notToastVars

ToastNext ==
    \/ \E duration_ms \in 1 .. MaxAge : tm_add_toast(duration_ms)
    \/ tm_update
    \/ tm_time_passes

(* the queued toasts that have not reached their duration *)
Unexpired(toasts) ==
    LET young(toast) == duration_since(toast) < toast.duration
    IN  SelectSeq(toasts, young)

(* C11: toast queue order. After any sequence of add_toast and update
   calls, get_visible_toasts returns the oldest min(3, n) unexpired queued
   toasts, in insertion order; add_toast removes and reorders nothing, it
   puts the new toast behind the ones queued. *)
C11_OldestUnexpiredInOrder ==
    [][LET queue == overlay_state'.toasts
           unexpired == Unexpired(queue)
       IN  /\ get_visible_toasts(queue) =
                 SubSeq(unexpired, 1, Min(max_visible, Len(unexpired)))
           /\ \A i, j \in DOMAIN queue :
                 i < j => queue[i].style < queue[j].style
           /\ toast_count' # toast_count =>
                 /\ Len(queue) = Len(overlay_state.toasts) + 1
                 /\ SubSeq(queue, 1, Len(overlay_state.toasts)) =
                       overlay_state.toasts
                 /\ queue[Len(queue)].style = toast_count'
      ]_vars

(* a daemon that is not part of the run *)
DaemonIdle == DaemonInit(Paths) /\ overlay_socket = FALSE

(* an overlay state machine that is not part of the run *)
OverlayIdle ==
    /\ overlay_state = OverlayState_new(MenuItemId_all)
    /\ quit_file = FALSE
    /\ last_op = NoOp

(***************************************************************************)
(*        THE OVERLAY'S OWN INPUT: HOTKEYS AND poll_inputs IN A TICK       *)
(* src/overlay/src/input.rs, src/overlay/src/hotkeys.rs, main.rs:101-121   *)
(***************************************************************************)

MaxButtons == 2          \* gamepad events queued in gilrs at once

(* the keys get_current_inputs asks macroquad for *)
HotkeyKeys == {"F12", "F3", "O", "Ctrl"}

(* gilrs buttons that poll_inputs maps *)
Buttons ==
    {"DPadUp", "DPadDown", "DPadLeft", "DPadRight", "South", "East", "West",
     "Mode", "LeftTrigger", "RightTrigger", "LeftTrigger2", "RightTrigger2"}

(* HotkeyConfig::default_config: the bindings of an action, in order, each
   the set of its components *)
default_config ==
    [ToggleOverlay |-> <<{"F12"}, {"Ctrl", "O"}, {"Mode"}>>,
     TogglePerformance |-> <<{"F3"}>>]

AllBindings == {{"F12"}, {"Ctrl", "O"}, {"Mode"}, {"F3"}}

(* HotkeyMonitor::get_current_inputs: the components that are true; the
   gilrs queue is drained, only a press of Mode is kept *)
get_current_inputs(queue, down) ==
    (down \cap HotkeyKeys)
       \cup (IF \E k \in DOMAIN queue : queue[k].button = "Mode"
                THEN {"Mode"} ELSE {})

(* HotkeyManager::check_action_pressed from binding k on:
   check_binding_pressed stores all_pressed and reports a rising edge, and
   the loop returns at the first binding that reports one *)
RECURSIVE check_bindings_from(_, _, _, _)
check_bindings_from(bindings, k, last_states, inputs) ==
    IF k > Len(bindings) THEN [fired |-> FALSE, last_states |-> last_states]
    ELSE LET all_pressed == bindings[k] \subseteq inputs
             was_pressed == last_states[bindings[k]]
             updated == [last_states EXCEPT ![bindings[k]] = all_pressed]
         IN  IF all_pressed /\ ~was_pressed
                THEN [fired |-> TRUE, last_states |-> updated]
                ELSE check_bindings_from(bindings, k + 1, updated, inputs)

(* HotkeyManager::check_action_pressed *)
check_action_pressed(action, last_states, inputs) ==
    check_bindings_from(default_config[action], 1, last_states, inputs)

(* poll_inputs: the ControllerInput of a ButtonPressed event *)
button_input(button) ==
    CASE button = "DPadUp" -> "Up"
      [] button = "DPadDown" -> "Down"
      [] button = "DPadLeft" -> "Left"
      [] button = "DPadRight" -> "Right"
      [] button = "South" -> "Select"
      [] button = "East" -> "Back"
      [] button = "West" -> "Secondary"
      [] button = "Mode" -> "Guide"
      [] button = "LeftTrigger" -> "LB"
      [] button = "RightTrigger" -> "RB"
      [] button = "LeftTrigger2" -> "LT"
      [] button = "RightTrigger2" -> "RT"

(* HotkeyMonitor::poll_inputs: the keyboard first (of the keys followed here
   is_key_pressed(F12) gives Guide), then the queued gamepad events *)
poll_inputs(queue, pressed) ==
    (IF "F12" \in pressed THEN <<"Guide">> ELSE <<>>)
       \o [k \in DOMAIN queue |-> button_input(queue[k].button)]

(* main: for input in poll_inputs() { handle_input(input) } *)
RECURSIVE handle_inputs(_, _)
handle_inputs(st, inputs) ==
    IF inputs = <<>> THEN st
    ELSE handle_inputs(handle_input(st, Head(inputs), TRUE), Tail(inputs))

(* HotkeyMonitor::new and the first frame: no key down, no event queued.
   The history fields: the inputs of the last two check_hotkey_pressed
   calls and what the last one returned, whether the toggle of this tick
   opened the overlay, how many gamepad events poll_inputs took in this
   tick, and whether a hotkey check has dropped a button
   event that arrived while the overlay was visible *)
MonitorInit ==
    input_monitor =
       [pc |-> "check_hotkey", queue |-> <<>>, down |-> {}, pressed |-> {},
        binding_last_states |-> [b \in AllBindings |-> FALSE],
        inputs |-> {}, prev_inputs |-> {}, fired |-> FALSE,
        opened |-> FALSE, polled_buttons |-> 0, lost |-> FALSE]

(* the button events of the queue that arrived while the overlay was
   visible and that get_current_inputs throws away *)
Discarded(queue) ==
    \E k \in DOMAIN queue :
       queue[k].button # "Mode" /\ queue[k].while_visible

(* a gamepad button is pressed: gilrs queues the event *)
gamepad_button(button) ==
    /\ Len(input_monitor.queue) < MaxButtons
    /\ input_monitor' =
          [input_monitor EXCEPT !.queue =
              Append(@, [button |-> button,
                         while_visible |-> overlay_state.visible])]
    /\ UNCHANGED <<overlay_state, perf_visible>>
    /\ UNCHANGED notMonitorVars

(* main: if input_monitor.check_hotkey_pressed() { toggle_visibility() } *)
tick_check_hotkey ==
    /\ input_monitor.pc = "check_hotkey"
    /\ LET m == input_monitor
           inputs == get_current_inputs(m.queue, m.down)
           r == check_action_pressed("ToggleOverlay", m.binding_last_states,
                                     inputs)
       IN  /\ overlay_state' = IF r.fired THEN toggle_visibility(overlay_state)
                               ELSE overlay_state
           /\ input_monitor' =
                 [m EXCEPT !.pc = "check_performance",
                           !.queue = <<>>,
                           !.binding_last_states = r.last_states,
                           !.inputs = inputs,
                           !.prev_inputs = m.inputs,
                           !.fired = r.fired,
                           !.opened = r.fired /\ ~overlay_state.visible,
                           !.lost = m.lost \/ Discarded(m.queue)]
    /\ UNCHANGED perf_visible
    /\ UNCHANGED notMonitorVars

(* main: if input_monitor.check_performance_hotkey_pressed() {
   performance.toggle_visibility() } *)
tick_check_performance ==
    /\ input_monitor.pc = "check_performance"
    /\ LET m == input_monitor
           inputs == get_current_inputs(m.queue, m.down)
           r == check_action_pressed("TogglePerformance",
                                     m.binding_last_states, inputs)
       IN  /\ perf_visible' =
                 IF r.fired THEN performance_toggle_visibility(perf_visible)
                 ELSE perf_visible
           /\ input_monitor' =
                 [m EXCEPT !.pc = "poll_inputs",
                           !.queue = <<>>,
                           !.binding_last_states = r.last_states,
                           !.lost = m.lost \/ Discarded(m.queue)]
    /\ UNCHANGED overlay_state
    /\ UNCHANGED notMonitorVars

(* main: if overlay_state.is_visible() { for input in poll_inputs() {
   handle_input(input) } } *)
tick_poll_inputs ==
    /\ input_monitor.pc = "poll_inputs"
    /\ LET m == input_monitor IN
       IF overlay_state.visible
          THEN /\ overlay_state' =
                     handle_inputs(overlay_state,
                                   poll_inputs(m.queue, m.pressed))
               /\ input_monitor' =
                     [m EXCEPT !.pc = "next_frame", !.queue = <<>>,
                               !.polled_buttons = Len(m.queue)]
          ELSE /\ input_monitor' = [m EXCEPT !.pc = "next_frame"]
               /\ UNCHANGED overlay_state
    /\ UNCHANGED perf_visible
    /\ UNCHANGED notMonitorVars

(* the rest of the tick up to next_frame, with no message and no toast;
   macroquad then reports the keys as they are now: is_key_down for the
   keys that are down, is_key_pressed for those that went down *)
tick_next_frame(down) ==
    /\ input_monitor.pc = "next_frame"
    /\ input_monitor' =
          [input_monitor EXCEPT !.pc = "check_hotkey",
                                !.down = down,
                                !.pressed = down \ input_monitor.down,
                                !.opened = FALSE,
                                !.polled_buttons = 0]
    /\ UNCHANGED <<overlay_state, perf_visible>>
    /\ UNCHANGED notMonitorVars

(* the tick with the keys and the gamepad buttons that are used *)
MonitorNext(keys, buttons) ==
    \/ \E button \in buttons : gamepad_button(button)
    \/ tick_check_hotkey
    \/ tick_check_performance
    \/ tick_poll_inputs
    \/ \E down \in SUBSET keys : tick_next_frame(down)

(* a gamepad and the F12 key *)
TickNext == MonitorNext({"F12"}, {"Mode", "East", "DPadDown"})

(* the keyboard and the Guide button *)
HotkeysNext == MonitorNext(HotkeyKeys, {"Mode"})

\* ---- claims about the overlay's own input ----

(* C33: in a tick in which the toggle hotkey fires while the overlay is
   hidden, and in which no other press reaches the input polling, the
   overlay is visible on Main when the input polling of that tick is over:
   the press that opened it is not also taken as a Guide input. *)
C33_HotkeyOpensOverlay ==
    (/\ input_monitor.pc = "next_frame"
     /\ input_monitor.opened
     /\ input_monitor.polled_buttons = 0)
       => Rendered("Main")

(* C34: no gamepad button-press event that arrived while the overlay was
   visible is consumed by the hotkey checks of the tick; poll_inputs gets
   it. *)
C34_ButtonEventsReachPollInputs == ~input_monitor.lost

(* C36: check_hotkey_pressed returns true only in a tick in which one of
   the bindings of the action goes from not all components pressed, in the
   tick before, to all components pressed; so a press that is held fires
   once. *)
C36_RisingEdgeOnly ==
    input_monitor.fired =>
       \E k \in DOMAIN default_config.ToggleOverlay :
          LET binding == default_config.ToggleOverlay[k]
          IN  /\ binding \subseteq input_monitor.inputs
              /\ ~(binding \subseteq input_monitor.prev_inputs)

(***************************************************************************)
(*              OVERLAY CLIENTS AND THE BIOS GAME LAUNCH                   *)
(* src/overlay/src/client.rs, src/bios/src/utils.rs, src/bios/src/save.rs, *)
(* src/input-daemon/src/main.rs (notify_overlay), src/ra/src/main.rs       *)
(*                                                                         *)
(* sock_file is whether /tmp/kazeta-overlay.sock exists.  What a connect   *)
(* or a write on it returns is an input of the step that makes the call.   *)
(***************************************************************************)

(* start_overlay_daemon: for attempt in 0..3 *)
WaitAttempts == 3

Producers ==
    {"notify_overlay", "notify_game_started", "notify_game_stopped",
     "show_toast", "notify_overlay_game_start", "notify_overlay_achievement"}

(* what a producer did: a message went out, an Err went back to the *)
(* caller, the socket file was removed                              *)
Silent == [sent |-> FALSE, error |-> FALSE, removed |-> FALSE]

NoProbe ==
    [by |-> None, exists |-> FALSE, connect_ok |-> FALSE, wrote |-> FALSE,
     write_ok |-> FALSE, available |-> FALSE, removed |-> FALSE]

NoCall == [producer |-> None, exists |-> FALSE, result |-> Silent]

(* mutant: the file of a refused connect is left in place *)
is_available_keep(exists, connect_ok) ==
    IF ~exists
    THEN [available |-> FALSE, removed |-> FALSE]
    ELSE IF connect_ok
         THEN [available |-> TRUE, removed |-> FALSE]
         ELSE [available |-> FALSE, removed |-> FALSE]

(* OverlayClient::is_available: nothing is written to the stream *)
is_available(exists, connect_ok) ==
    IF ~exists
    THEN [available |-> FALSE, removed |-> FALSE]
    ELSE IF connect_ok
         THEN [available |-> TRUE, removed |-> FALSE]
         ELSE [available |-> FALSE, removed |-> TRUE]

(* mutant: the daemon is restarted whatever the probe finds *)
overlay_probe_restart(exists, connect_ok, write_ok) ==
    [alive |-> FALSE, wrote |-> exists /\ connect_ok, removed |-> exists]

(* start_overlay_daemon, the probe of the existing socket: connect, then *)
(* write a get_status line                                               *)
overlay_probe(exists, connect_ok, write_ok) ==
    IF ~exists
    THEN [alive |-> FALSE, wrote |-> FALSE, removed |-> FALSE]
    ELSE IF connect_ok
         THEN IF write_ok
              THEN [alive |-> TRUE, wrote |-> TRUE, removed |-> FALSE]
              ELSE [alive |-> FALSE, wrote |-> TRUE, removed |-> TRUE]
         ELSE [alive |-> FALSE, wrote |-> FALSE, removed |-> TRUE]

(* OverlayClient::send_message *)
send_message(connect_ok, write_ok) ==
    [sent |-> connect_ok /\ write_ok, error |-> ~(connect_ok /\ write_ok),
     removed |-> FALSE]

(* mutant: the connect is made without looking for the file *)
notify_overlay_result_blind(exists, connect_ok, write_ok) ==
    IF ~(exists /\ connect_ok)
    THEN [sent |-> FALSE, error |-> TRUE, removed |-> FALSE]
    ELSE [sent |-> write_ok, error |-> ~write_ok, removed |-> FALSE]

(* the input daemon's notify_overlay: Ok(()) without a socket, the *)
(* connect and the write with `?`                                   *)
notify_overlay_result(exists, connect_ok, write_ok) ==
    IF ~exists
    THEN Silent
    ELSE IF ~connect_ok
         THEN [sent |-> FALSE, error |-> TRUE, removed |-> FALSE]
         ELSE [sent |-> write_ok, error |-> ~write_ok, removed |-> FALSE]

(* the BIOS's notify_game_started and notify_game_stopped: return when *)
(* the path is missing, `if let Ok(stream)` and `let _ = writeln!`     *)
notify_game_result(exists, connect_ok, write_ok) ==
    IF ~exists
    THEN Silent
    ELSE [sent |-> connect_ok /\ write_ok, error |-> FALSE,
          removed |-> FALSE]

(* kazeta-ra's notify_overlay_game_start and notify_overlay_achievement: *)
(* Ok(()) on every path                                                  *)
notify_ra_result(exists, connect_ok, write_ok) ==
    IF ~exists
    THEN Silent
    ELSE [sent |-> connect_ok /\ write_ok, error |-> FALSE,
          removed |-> FALSE]

(* the BIOS's show_toast: is_available, then the client's send_message on *)
(* a second connection; its error is printed, nothing is returned         *)
show_toast_result(exists, connect_ok, reconnect_ok, write_ok) ==
    LET a == is_available(exists, connect_ok)
    IN  IF a.available
        THEN [sent |-> send_message(reconnect_ok, write_ok).sent,
              error |-> FALSE, removed |-> FALSE]
        ELSE [sent |-> FALSE, error |-> FALSE, removed |-> a.removed]

produce(p, exists, connect_ok, reconnect_ok, write_ok) ==
    CASE p = "notify_overlay" ->
            notify_overlay_result(exists, connect_ok, write_ok)
      [] p \in {"notify_game_started", "notify_game_stopped"} ->
            notify_game_result(exists, connect_ok, write_ok)
      [] p = "show_toast" ->
            show_toast_result(exists, connect_ok, reconnect_ok, write_ok)
      [] OTHER -> notify_ra_result(exists, connect_ok, write_ok)

(* mutant: a failed start of the overlay ends the launch *)
launch_after_overlay_abort(result) ==
    IF result = "Err" THEN "done" ELSE "notify_game_started"

(* trigger_game_launch: an Err of start_overlay_daemon is printed and the *)
(* launch goes on                                                         *)
launch_after_overlay(result) == "notify_game_started"

LaunchSteps ==
    <<"start_overlay_daemon", "notify_game_started", "write_launch_command",
      "trigger_session_restart">>

StartCases == {"reused", "started", "no_binary", "spawn_error", "no_socket"}

(* the BIOS in its menu, no client has called yet *)
LaunchIdle ==
    /\ sock_file = FALSE
    /\ last_probe = NoProbe
    /\ last_call = NoCall
    /\ bios_pc = "menu"
    /\ attempt = 0
    /\ spawned = 0
    /\ steps = <<>>
    /\ start_case = None
    /\ start_seen = NoProbe
    /\ launch_cmd = None
    /\ sentinel = FALSE
    /\ bios_screen = "MainMenu"
    /\ bios_log = {}

(* an overlay of an earlier session may have left its socket *)
LaunchInit ==
    /\ sock_file \in BOOLEAN
    /\ last_probe = NoProbe
    /\ last_call = NoCall
    /\ bios_pc = "menu"
    /\ attempt = 0
    /\ spawned = 0
    /\ steps = <<>>
    /\ start_case = None
    /\ start_seen = NoProbe
    /\ launch_cmd = None
    /\ sentinel = FALSE
    /\ bios_screen = "MainMenu"
    /\ bios_log = {}

(* an overlay process binds its listener *)
socket_appears ==
    /\ ~sock_file
    /\ sock_file' = TRUE
    /\ UNCHANGED <<last_probe, last_call, launchPcVars, notLaunchVars>>

(* an overlay process quits and removes its socket *)
socket_disappears ==
    /\ sock_file
    /\ sock_file' = FALSE
    /\ UNCHANGED <<last_probe, last_call, launchPcVars, notLaunchVars>>

(* some client asks whether the daemon is there *)
client_is_available(connect_ok) ==
    LET a == is_available(sock_file, connect_ok)
    IN  /\ last_probe' =
            [by |-> "is_available", exists |-> sock_file,
             connect_ok |-> sock_file /\ connect_ok, wrote |-> FALSE,
             write_ok |-> FALSE, available |-> a.available,
             removed |-> a.removed]
        /\ sock_file' = (sock_file /\ ~a.removed)
        /\ UNCHANGED <<last_call, launchPcVars, notLaunchVars>>

(* a producer outside the launch sends its message *)
client_call(p, connect_ok, reconnect_ok, write_ok) ==
    LET r == produce(p, sock_file, connect_ok, reconnect_ok, write_ok)
    IN  /\ last_call' = [producer |-> p, exists |-> sock_file, result |-> r]
        /\ sock_file' = (sock_file /\ ~r.removed)
        /\ UNCHANGED <<last_probe, launchPcVars, notLaunchVars>>

(* trigger_game_launch is entered *)
trigger_game_launch ==
    /\ bios_pc = "menu"
    /\ bios_pc' = "start_overlay_daemon"
    /\ UNCHANGED <<sock_file, last_probe, last_call, attempt, spawned, steps,
                   start_case, start_seen, launch_cmd, sentinel, bios_screen,
                   bios_log, notLaunchVars>>

(* start_overlay_daemon up to the binary lookup *)
start_overlay_probe(connect_ok, write_ok) ==
    LET r == overlay_probe(sock_file, connect_ok, write_ok)
        seen == [by |-> "start_overlay_daemon", exists |-> sock_file,
                 connect_ok |-> sock_file /\ connect_ok, wrote |-> r.wrote,
                 write_ok |-> r.wrote /\ write_ok, available |-> r.alive,
                 removed |-> r.removed]
    IN  /\ bios_pc = "start_overlay_daemon"
        /\ steps' = Append(steps, "start_overlay_daemon")
        /\ last_probe' = seen
        /\ start_seen' = seen
        /\ sock_file' = (sock_file /\ ~r.removed)
        /\ IF r.alive
           THEN /\ start_case' = "reused"
                /\ bios_pc' = launch_after_overlay("Ok")
           ELSE /\ start_case' = start_case
                /\ bios_pc' = "find_binary"
        /\ UNCHANGED <<last_call, attempt, spawned, launch_cmd, sentinel,
                       bios_screen, bios_log, notLaunchVars>>

(* start_overlay_daemon: the binary is looked up *)
find_binary(found) ==
    /\ bios_pc = "find_binary"
    /\ IF found
       THEN /\ bios_pc' = "spawn"
            /\ UNCHANGED <<start_case, bios_log>>
       ELSE /\ start_case' = "no_binary"
            /\ bios_log' = bios_log \cup {"overlay_not_started"}
            /\ bios_pc' = launch_after_overlay("Err")
    /\ UNCHANGED <<sock_file, last_probe, last_call, attempt, spawned, steps,
                   start_seen, launch_cmd, sentinel, bios_screen, notLaunchVars>>

(* start_overlay_daemon: cmd.spawn()? and the first sleep *)
spawn_overlay(ok) ==
    /\ bios_pc = "spawn"
    /\ IF ok
       THEN /\ spawned' = spawned + 1
            /\ attempt' = 0
            /\ bios_pc' = "wait"
            /\ UNCHANGED <<start_case, bios_log>>
       ELSE /\ start_case' = "spawn_error"
            /\ bios_log' = bios_log \cup {"overlay_not_started"}
            /\ bios_pc' = launch_after_overlay("Err")
            /\ UNCHANGED <<spawned, attempt>>
    /\ UNCHANGED <<sock_file, last_probe, last_call, steps, start_seen,
                   launch_cmd, sentinel, bios_screen, notLaunchVars>>

(* start_overlay_daemon: one pass of the wait loop *)
wait_for_socket(connect_ok) ==
    LET a == is_available(sock_file, connect_ok)
    IN  /\ bios_pc = "wait"
        /\ last_probe' =
            [by |-> "is_available", exists |-> sock_file,
             connect_ok |-> sock_file /\ connect_ok, wrote |-> FALSE,
             write_ok |-> FALSE, available |-> a.available,
             removed |-> a.removed]
        /\ sock_file' = (sock_file /\ ~a.removed)
        /\ IF a.available
           THEN /\ start_case' = "started"
                /\ bios_pc' = launch_after_overlay("Ok")
                /\ UNCHANGED <<attempt, bios_log>>
           ELSE IF attempt + 1 < WaitAttempts
                THEN /\ attempt' = attempt + 1
                     /\ UNCHANGED <<bios_pc, start_case, bios_log>>
                ELSE /\ attempt' = attempt + 1
                     /\ start_case' = "no_socket"
                     /\ bios_log' = bios_log \cup {"socket_not_found"}
                     /\ bios_pc' = launch_after_overlay("Ok")
        /\ UNCHANGED <<last_call, spawned, steps, start_seen, launch_cmd,
                       sentinel, bios_screen, notLaunchVars>>

(* trigger_game_launch: notify_game_started, then setup_retroachievements, *)
(* which hands its work to background threads                              *)
launch_notify(connect_ok, write_ok) ==
    LET r == notify_game_result(sock_file, connect_ok, write_ok)
    IN  /\ bios_pc = "notify_game_started"
        /\ steps' = Append(steps, "notify_game_started")
        /\ last_call' = [producer |-> "notify_game_started",
                         exists |-> sock_file, result |-> r]
        /\ bios_pc' = "write_launch_command"
        /\ UNCHANGED <<sock_file, last_probe, attempt, spawned, start_case,
                       start_seen, launch_cmd, sentinel, bios_screen, bios_log,
                       notLaunchVars>>

(* trigger_game_launch: write_launch_command, its error is printed *)
launch_write_command(ok) ==
    /\ bios_pc = "write_launch_command"
    /\ steps' = Append(steps, "write_launch_command")
    /\ IF ok
       THEN /\ launch_cmd' = "written"
            /\ UNCHANGED bios_log
       ELSE /\ launch_cmd' = "failed"
            /\ bios_log' = bios_log \cup {"launch_command_failed"}
    /\ bios_pc' = "trigger_session_restart"
    /\ UNCHANGED <<sock_file, last_probe, last_call, attempt, spawned,
                   start_case, start_seen, sentinel, bios_screen, notLaunchVars>>

(* trigger_session_restart: the sentinel is created when its directory *)
(* could be made, and the screen fades out                             *)
trigger_session_restart(dir_ok, create_ok) ==
    /\ bios_pc = "trigger_session_restart"
    /\ steps' = Append(steps, "trigger_session_restart")
    /\ sentinel' = (sentinel \/ (dir_ok /\ create_ok))
    /\ bios_screen' = "FadingOut"
    /\ bios_pc' = "done"
    /\ UNCHANGED <<sock_file, last_probe, last_call, attempt, spawned,
                   start_case, start_seen, launch_cmd, bios_log,
                   notLaunchVars>>

LaunchStep ==
    \/ trigger_game_launch
    \/ \E c, w \in BOOLEAN : start_overlay_probe(c, w)
    \/ \E found \in BOOLEAN : find_binary(found)
    \/ \E ok \in BOOLEAN : spawn_overlay(ok)
    \/ \E c \in BOOLEAN : wait_for_socket(c)
    \/ \E c, w \in BOOLEAN : launch_notify(c, w)
    \/ \E ok \in BOOLEAN : launch_write_command(ok)
    \/ \E d, f \in BOOLEAN : trigger_session_restart(d, f)

LaunchNext ==
    \/ LaunchStep
    \/ socket_appears
    \/ socket_disappears
    \/ \E c \in BOOLEAN : client_is_available(c)
    \/ \E p \in Producers : \E c, rc, w \in BOOLEAN : client_call(p, c, rc, w)

(* the BIOS's thread runs on while trigger_game_launch has not returned *)
LaunchFairness == WF_vars(LaunchStep)

(* C16: every probe of the socket, the client's is_available and the one   *)
(* in start_overlay_daemon, reports the daemon available only if the path  *)
(* exists and the connect succeeded; when the connect fails, or the probe  *)
(* writes and the write fails, the file is gone afterwards and the daemon  *)
(* is reported unavailable; without a path it is reported unavailable and  *)
(* nothing is removed or made.                                             *)
C16_AvailabilityProbe ==
    [][last_probe' # last_probe =>
        LET p == last_probe'
        IN  /\ p.exists = sock_file
            /\ p.available => (p.exists /\ p.connect_ok /\ sock_file')
            /\ (p.exists /\ (~p.connect_ok \/ (p.wrote /\ ~p.write_ok))) =>
                   (~p.available /\ p.removed /\ ~sock_file')
            /\ ~p.exists => (~p.available /\ ~p.removed /\ ~sock_file')]_vars

(* the probe of start_overlay_daemon connected, its write failed, and the *)
(* file was removed                                                       *)
C16_Witness ==
    /\ last_probe.by = "start_overlay_daemon"
    /\ last_probe.exists /\ last_probe.connect_ok
    /\ last_probe.wrote /\ ~last_probe.write_ok
    /\ last_probe.removed /\ ~last_probe.available
    /\ ~sock_file

(* C17: a producer called while the socket path does not exist sends       *)
(* nothing, returns no error, removes and makes nothing, and the game      *)
(* launch it is part of goes on to the launch command.                     *)
C17_MissingSocketNoOp ==
    [][(last_call' # last_call /\ ~sock_file) =>
        /\ last_call'.exists = FALSE
        /\ last_call'.result = Silent
        /\ ~sock_file'
        /\ IF bios_pc = "notify_game_started"
              /\ last_call'.producer = "notify_game_started"
              /\ steps' # steps
           THEN bios_pc' = "write_launch_command"
           ELSE bios_pc' = bios_pc]_vars

(* the input daemon's notify_overlay was called without a socket *)
C17_Witness ==
    /\ last_call.producer = "notify_overlay"
    /\ ~last_call.exists
    /\ last_call.result = Silent
    /\ ~sock_file

(* C18: the steps of a launch are taken in the order overlay probe/start,  *)
(* game_started notification, launch-command write, session restart (the   *)
(* sentinel); a launch that has returned has taken all four; and whatever  *)
(* became of the overlay (reused, started, binary missing, spawn error, no *)
(* socket within the wait) the launch returns.                             *)
C18_LaunchSequencing ==
    /\ [](\E n \in 0..Len(LaunchSteps) : steps = SubSeq(LaunchSteps, 1, n))
    /\ [](bios_pc = "done" =>
            (steps = LaunchSteps /\ start_case \in StartCases))
    /\ \A c \in StartCases :
          (start_case = c) ~> (bios_pc = "done" /\ start_case = c)
    /\ (bios_pc = "start_overlay_daemon") ~> (bios_pc = "done")

(* the launch returned although the spawned overlay never had a socket *)
C18_Witness ==
    /\ bios_pc = "done"
    /\ start_case = "no_socket"
    /\ spawned = 1
    /\ steps = LaunchSteps
    /\ bios_screen = "FadingOut"

(* C19: once the write of the launch command has failed, the failure is  *)
(* logged, no sentinel is created and the screen does not fade out.      *)
C19_NoRestartAfterFailedWrite ==
    launch_cmd = "failed" =>
        /\ "launch_command_failed" \in bios_log
        /\ ~sentinel
        /\ bios_screen # "FadingOut"

(* C20: after a probe that found the socket, connected and wrote, no     *)
(* overlay is spawned; an overlay is spawned only after a probe that     *)
(* found no path or removed the path it found.                           *)
C20_OverlayReuse ==
    /\ (start_seen.exists /\ start_seen.connect_ok /\ start_seen.write_ok) =>
          /\ spawned = 0
          /\ start_case = "reused" \/ bios_pc = "start_overlay_daemon"
          /\ bios_pc \notin {"find_binary", "spawn", "wait"}
    /\ (spawned > 0 \/ bios_pc \in {"find_binary", "spawn", "wait"}) =>
          /\ start_seen.by = "start_overlay_daemon"
          /\ ~start_seen.available
          /\ ~start_seen.exists \/ start_seen.removed

(* an overlay was spawned after the stale socket had been removed *)
C20_Witness ==
    /\ spawned = 1
    /\ start_seen.exists
    /\ start_seen.removed

(* no overlay process is started in the run *)
SocketIdle ==
    /\ socket_path = NoFile
    /\ servers = [i \in Overlays |-> "not_started"]

(* the components added after the launch, at rest *)
MoreIdle ==
    HudInit /\ TrackerInit /\ KbdInit /\ MonitorInit /\ MutexInit /\ ProbeInit

(* the components that are specified on their own, at rest *)
AloneIdle ==
    /\ ToastInit /\ PlaytimeIdle /\ FilterInit /\ ShutdownInit /\ LaunchIdle
    /\ MoreIdle

(* everything but the input daemon, at rest *)
OverlayAtRest ==
    /\ OverlayIdle /\ SocketIdle /\ IpcInit /\ ControllersInit /\ FrameInit
    /\ AloneIdle

InputInit == DaemonInit(Paths) /\ OverlayAtRest

HotplugInit ==
    /\ \E devs \in SUBSET Paths : DaemonInit(devs)
    /\ overlay_socket = FALSE
    /\ OverlayAtRest

(* the overlay state machine alone *)
StateInit ==
    /\ DaemonIdle /\ OverlayInit /\ SocketIdle /\ IpcInit /\ ControllersInit
    /\ FrameInit /\ AloneIdle

(* overlay processes starting and stopping *)
StartupInit ==
    /\ DaemonIdle /\ OverlayIdle /\ SocketInit /\ IpcInit /\ ControllersInit
    /\ FrameInit /\ AloneIdle

(* clients and the IPC server *)
ConnInit == DaemonIdle /\ OverlayAtRest

SpecInput == InputInit /\ [][InputNext]_vars

SpecHotplug == HotplugInit /\ [][HotplugNext]_vars

(* the daemon starts with one device and the overlay listening *)
DebounceInit ==
    /\ DaemonInit({"event0"})
    /\ overlay_socket = TRUE
    /\ OverlayAtRest

SpecDebounce == DebounceInit /\ [][DebounceNext]_vars

Spec == StateInit /\ [][OverlayNext]_vars

SpecSocket == StartupInit /\ [][SocketNext]_vars

SpecIpc == ConnInit /\ [][IpcNext]_vars

SpecControllers == ConnInit /\ [][ControllersNext]_vars

SpecToast == ConnInit /\ [][FrameNext]_vars

SpecToastManager == ConnInit /\ [][ToastNext]_vars

PlaytimeAloneInit ==
    /\ DaemonIdle /\ OverlayIdle /\ SocketIdle /\ IpcInit /\ ControllersInit
    /\ FrameInit /\ ToastInit /\ PlaytimeInit /\ FilterInit
    /\ ShutdownInit /\ LaunchIdle /\ MoreIdle

SpecPlaytime == PlaytimeAloneInit /\ [][PlaytimeNext]_vars

SpecFilter == ConnInit /\ [][FilterNext]_vars

SpecShutdown == HotplugInit /\ [][ShutdownNext]_vars /\ ShutdownFairness

LaunchAloneInit ==
    /\ DaemonIdle /\ OverlayIdle /\ SocketIdle /\ IpcInit /\ ControllersInit
    /\ FrameInit /\ ToastInit /\ PlaytimeIdle /\ FilterInit
    /\ ShutdownInit /\ LaunchInit /\ MoreIdle

SpecLaunch == LaunchAloneInit /\ [][LaunchNext]_vars /\ LaunchFairness

SpecQuitConfirm == StateInit /\ [][QuitConfirmNext]_vars

(* the frame loop from its first frame, the HUD off *)
HudFrameInit ==
    /\ DaemonIdle /\ OverlayIdle /\ SocketIdle /\ IpcInit /\ ControllersInit
    /\ frame_pc = "hotkeys" /\ rendered = <<>>
    /\ AloneIdle

SpecHud == HudFrameInit /\ [][HudNext]_vars

SpecFeed == ConnInit /\ [][FeedNext]_vars

SpecKeys == ConnInit /\ [][KeysNext]_vars

SpecIpcLive == ConnInit /\ [][IpcNext]_vars /\ IpcFairness

SpecTick == ConnInit /\ [][TickNext]_vars

SpecReach == StartupInit /\ [][ReachNext]_vars

SpecSessions == PlaytimeAloneInit /\ [][SessionsNext]_vars

SpecMutex == ConnInit /\ [][MutexNext]_vars /\ MutexFairness

SpecHotkeys == ConnInit /\ [][HotkeysNext]_vars

====
